---- MODULE Spec2Model ----
(***************************************************************************)
(* Model of the Markdown post-processing core of legacy_confluece_to_md:   *)
(* the language classifier and the structural formatters of               *)
(* code_formatter.py, the output repair pass of marker_cleaner.py and the  *)
(* fenced-block orchestrator of converter.py.                              *)
(*                                                                         *)
(* Text is a sequence of one-character strings.  Python's regular          *)
(* expressions are abstract syntax trees interpreted by a backtracking     *)
(* matcher (ReM) that returns the matches in Python's priority order, so   *)
(* that greedy and lazy quantifiers and capture groups behave as in re.    *)
(***************************************************************************)
EXTENDS Integers, Sequences, FiniteSets, TLC

----------------------------------------------------------------------------
(* Characters and Python str helpers                                       *)

LowerLetters == <<"a","b","c","d","e","f","g","h","i","j","k","l","m",
                  "n","o","p","q","r","s","t","u","v","w","x","y","z">>
UpperLetters == <<"A","B","C","D","E","F","G","H","I","J","K","L","M",
                  "N","O","P","Q","R","S","T","U","V","W","X","Y","Z">>
Range(f) == {f[k] : k \in DOMAIN f}
Lower == Range(LowerLetters)
Upper == Range(UpperLetters)
Digits == {"0","1","2","3","4","5","6","7","8","9"}
\* [a-zA-Z_]
IdentStart == Lower \cup Upper \cup {"_"}
\* \w  (ASCII part)
WordCh == IdentStart \cup Digits
\* \s and the characters str.strip() removes (ASCII part)
WS == {" ", "\t", "\n", "\r", "\f"}

\* the other-case form of a letter, the character itself otherwise
SwapCase(ch) ==
  IF ch \in Lower THEN UpperLetters[CHOOSE k \in 1..26 : LowerLetters[k] = ch]
  ELSE IF ch \in Upper THEN LowerLetters[CHOOSE k \in 1..26 : UpperLetters[k] = ch]
  ELSE ch
\* str.lower() on one character
ToLower(ch) == IF ch \in Upper THEN SwapCase(ch) ELSE ch
\* str.lower()
StrLower(s) == [k \in 1..Len(s) |-> ToLower(s[k])]

\* s[a-1:b] in Python terms: characters a..b (1-based, inclusive)
Slice(s, a, b) == IF a > b THEN <<>> ELSE SubSeq(s, a, b)
\* s[a-1:]
From(s, a) == Slice(s, a, Len(s))

\* str.startswith / str.endswith
StartsWith(s, p) == Len(p) <= Len(s) /\ SubSeq(s, 1, Len(p)) = p
EndsWith(s, p) == Len(p) <= Len(s) /\ SubSeq(s, Len(s) - Len(p) + 1, Len(s)) = p
\* p in s
Contains(s, p) == \E i \in 1..(Len(s) - Len(p) + 1) : SubSeq(s, i, i + Len(p) - 1) = p

\* index of the first / last non-whitespace character (Len+1 / 0 if none)
FirstNonWS(s) ==
  IF \E k \in 1..Len(s) : s[k] \notin WS
  THEN CHOOSE k \in 1..Len(s) : s[k] \notin WS /\ \A j \in 1..(k-1) : s[j] \in WS
  ELSE Len(s) + 1
LastNonWS(s) ==
  IF \E k \in 1..Len(s) : s[k] \notin WS
  THEN CHOOSE k \in 1..Len(s) : s[k] \notin WS /\ \A j \in (k+1)..Len(s) : s[j] \in WS
  ELSE 0
\* str.strip(), str.lstrip(), str.rstrip()
Strip(s) == Slice(s, FirstNonWS(s), LastNonWS(s))
LStrip(s) == From(s, FirstNonWS(s))
RStrip(s) == Slice(s, 1, LastNonWS(s))

\* str.split("\n"): always at least one piece
RECURSIVE SplitLines(_)
SplitLines(s) ==
  IF \E k \in 1..Len(s) : s[k] = "\n"
  THEN LET k == CHOOSE k \in 1..Len(s) : s[k] = "\n" /\ \A j \in 1..(k-1) : s[j] # "\n"
       IN <<Slice(s, 1, k-1)>> \o SplitLines(From(s, k+1))
  ELSE <<s>>
\* "\n".join(lines)
RECURSIVE JoinLines(_)
JoinLines(ls) ==
  IF Len(ls) = 0 THEN <<>>
  ELSE IF Len(ls) = 1 THEN ls[1]
  ELSE ls[1] \o <<"\n">> \o JoinLines(Tail(ls))

\* " " * n
Spaces(n) == [k \in 1..n |-> " "]
\* "\t" * n
Tabs(n) == [k \in 1..n |-> "\t"]

----------------------------------------------------------------------------
(* Regular expressions: syntax                                             *)

RSet(cs) == [t |-> "set", cs |-> cs]          \* [...] or a literal character
RNot(cs) == [t |-> "nset", cs |-> cs]         \* [^...]
RDot == [t |-> "dot"]                         \* .
RCat(rs) == [t |-> "cat", rs |-> rs]          \* r1 r2 ...
RAlt(rs) == [t |-> "alt", rs |-> rs]          \* r1|r2|...
RStar(r) == [t |-> "star", r |-> r]           \* r*
RLazy(r) == [t |-> "lazy", r |-> r]           \* r*?
ROpt(r) == [t |-> "opt", r |-> r]             \* r?
RPlus(r) == RCat(<<r, RStar(r)>>)             \* r+
RBol == [t |-> "bol"]                         \* ^
REol == [t |-> "eol"]                         \* $
RWb == [t |-> "wb"]                           \* \b
RNla(r) == [t |-> "nla", r |-> r]             \* (?!r)
RGrp(n, r) == [t |-> "grp", n |-> n, r |-> r] \* (r), group number n
RLit(w) == RCat([k \in 1..Len(w) |-> RSet({w[k]})])  \* a literal word
RSpace == RSet(WS)                            \* \s
RWord == RSet(WordCh)                         \* \w

\* flags: ic = re.IGNORECASE, ml = re.MULTILINE, da = re.DOTALL
NoFlags == [ic |-> FALSE, ml |-> FALSE, da |-> FALSE]
FlagsMI == [ic |-> TRUE, ml |-> TRUE, da |-> FALSE]
FlagsM == [ic |-> FALSE, ml |-> TRUE, da |-> FALSE]
FlagsS == [ic |-> FALSE, ml |-> FALSE, da |-> TRUE]

(* Regular expressions: matching.  ReM(r, f, s, i, c) is the list of ways r *)
(* matches s from position i on, best first; each is [e |-> position after  *)
(* the match, c |-> capture groups as <<first, last>> index pairs].         *)

InClass(ch, cs, f) == ch \in cs \/ (f.ic /\ SwapCase(ch) \in cs)

AtBol(f, s, i) == i = 1 \/ (f.ml /\ s[i-1] = "\n")
AtEol(f, s, i) ==
  \/ i = Len(s) + 1
  \/ (i = Len(s) /\ s[i] = "\n")
  \/ (f.ml /\ i <= Len(s) /\ s[i] = "\n")
AtWb(s, i) ==
  LET before == i > 1 /\ s[i-1] \in WordCh
      after == i <= Len(s) /\ s[i] \in WordCh
  IN before # after

\* whether the one-character pattern r (a class or a dot) accepts ch
IsCharPattern(r) == r.t \in {"set", "nset", "dot"}
CharOk(r, f, ch) ==
  CASE r.t = "set" -> InClass(ch, r.cs, f)
    [] r.t = "nset" -> ~InClass(ch, r.cs, f)
    [] r.t = "dot" -> f.da \/ ch # "\n"

\* the number of consecutive characters from position i on that r accepts
RunLength(r, f, s, i) ==
  CHOOSE n \in 0..(Len(s) - i + 1) :
    /\ \A k \in i..(i + n - 1) : CharOk(r, f, s[k])
    /\ (i + n > Len(s) \/ ~CharOk(r, f, s[i + n]))

RECURSIVE ReM(_, _, _, _, _)
RECURSIVE ReCat(_, _, _, _, _, _)
RECURSIVE ReCatEach(_, _, _, _, _, _)
RECURSIVE ReStarEach(_, _, _, _, _, _)
RECURSIVE ReAlt(_, _, _, _, _, _)

\* alternatives k.. of rs, in order
ReAlt(rs, k, f, s, i, c) ==
  IF k > Len(rs) THEN <<>>
  ELSE ReM(rs[k], f, s, i, c) \o ReAlt(rs, k + 1, f, s, i, c)

\* items k.. of the concatenation rs, from position i
ReCat(rs, k, f, s, i, c) ==
  IF k > Len(rs) THEN <<[e |-> i, c |-> c]>>
  ELSE ReCatEach(ReM(rs[k], f, s, i, c), 1, rs, k, f, s)

\* continue the concatenation after each way ms[j..] of matching item k
ReCatEach(ms, j, rs, k, f, s) ==
  IF j > Len(ms) THEN <<>>
  ELSE ReCat(rs, k + 1, f, s, ms[j].e, ms[j].c) \o ReCatEach(ms, j + 1, rs, k, f, s)

\* repeat r after each way ms[j..] of matching one more r (empty matches end the loop)
ReStarEach(ms, j, r, f, s, i) ==
  IF j > Len(ms) THEN <<>>
  ELSE (IF ms[j].e > i THEN ReM(r, f, s, ms[j].e, ms[j].c) ELSE <<>>)
       \o ReStarEach(ms, j + 1, r, f, s, i)

ReM(r, f, s, i, c) ==
  CASE r.t = "set" ->
         IF i <= Len(s) /\ InClass(s[i], r.cs, f) THEN <<[e |-> i + 1, c |-> c]>> ELSE <<>>
    [] r.t = "nset" ->
         IF i <= Len(s) /\ ~InClass(s[i], r.cs, f) THEN <<[e |-> i + 1, c |-> c]>> ELSE <<>>
    [] r.t = "dot" ->
         IF i <= Len(s) /\ (f.da \/ s[i] # "\n") THEN <<[e |-> i + 1, c |-> c]>> ELSE <<>>
    [] r.t = "cat" -> ReCat(r.rs, 1, f, s, i, c)
    [] r.t = "alt" -> ReAlt(r.rs, 1, f, s, i, c)
    [] r.t = "star" /\ IsCharPattern(r.r) ->   \* longest run first
         LET n == RunLength(r.r, f, s, i)
         IN [j \in 1..(n + 1) |-> [e |-> i + n + 1 - j, c |-> c]]
    [] r.t = "lazy" /\ IsCharPattern(r.r) ->   \* shortest run first
         LET n == RunLength(r.r, f, s, i)
         IN [j \in 1..(n + 1) |-> [e |-> i + j - 1, c |-> c]]
    [] r.t = "star" ->
         ReStarEach(ReM(r.r, f, s, i, c), 1, r, f, s, i) \o <<[e |-> i, c |-> c]>>
    [] r.t = "lazy" ->
         <<[e |-> i, c |-> c]>> \o ReStarEach(ReM(r.r, f, s, i, c), 1, r, f, s, i)
    [] r.t = "opt" -> ReM(r.r, f, s, i, c) \o <<[e |-> i, c |-> c]>>
    [] r.t = "bol" -> IF AtBol(f, s, i) THEN <<[e |-> i, c |-> c]>> ELSE <<>>
    [] r.t = "eol" -> IF AtEol(f, s, i) THEN <<[e |-> i, c |-> c]>> ELSE <<>>
    [] r.t = "wb" -> IF AtWb(s, i) THEN <<[e |-> i, c |-> c]>> ELSE <<>>
    [] r.t = "nla" -> IF ReM(r.r, f, s, i, c) = <<>> THEN <<[e |-> i, c |-> c]>> ELSE <<>>
    [] r.t = "grp" ->
         LET ms == ReM(r.r, f, s, i, c)
         IN [j \in 1..Len(ms) |->
               [e |-> ms[j].e, c |-> (r.n :> <<i, ms[j].e - 1>>) @@ ms[j].c]]

\* re.match(r, s): the best match at the start of s, or <<>> if none (as a list)
ReMatch(r, f, s) == ReM(r, f, s, 1, <<>>)
ReMatches(r, f, s) == ReMatch(r, f, s) # <<>>
\* re.search(r, s) is not None
ReSearch(r, f, s) == \E i \in 1..(Len(s) + 1) : ReM(r, f, s, i, <<>>) # <<>>
\* match.group(n) of a group that took part in the match
Group(s, m, n) == Slice(s, m.c[n][1], m.c[n][2])

----------------------------------------------------------------------------
(* marker_cleaner.py: MarkerOutputCleaner                                  *)

W_name == <<"n","a","m","e">>
W_namespace == <<"n","a","m","e","s","p","a","c","e">>
W_maxUnhealthy == <<"m","a","x","U","n","h","e","a","l","t","h","y">>
W_nodeStartupTimeout == <<"n","o","d","e","S","t","a","r","t","u","p","T","i","m","e","o","u","t">>
W_selector == <<"s","e","l","e","c","t","o","r">>
W_unhealthyConditions == <<"u","n","h","e","a","l","t","h","y","C","o","n","d","i","t","i","o","n","s">>
W_matchLabels == <<"m","a","t","c","h","L","a","b","e","l","s">>
W_machine == <<"m","a","c","h","i","n","e",".","o","p","e","n","s","h","i","f","t",".","i","o","/">>
W_timeout == <<"t","i","m","e","o","u","t">>
W_type == <<"t","y","p","e">>
\* the grave accent of a Markdown fence: TLA+ string literals cannot contain
\* that character, so "~" stands for it everywhere in this module
BT == "~"
W_fence == <<BT, BT, BT>>
W_fence_yaml == <<BT, BT, BT, "y","a","m","l">>
W_fence_yml == <<BT, BT, BT, "y","m","l">>

\* r"^( )-\s+(.*)$"
list_item_pattern ==
  RCat(<<RBol, RGrp(1, RSet({" "})), RSet({"-"}), RPlus(RSpace), RGrp(2, RStar(RDot)), REol>>)

\* r"^( )([a-zA-Z_][a-zA-Z0-9_./-]*\s*:.*)$"
single_space_pattern ==
  RCat(<<RBol, RGrp(1, RSet({" "})),
         RGrp(2, RCat(<<RSet(IdentStart), RStar(RSet(WordCh \cup {".", "/", "-"})),
                        RStar(RSpace), RSet({":"}), RStar(RDot)>>)),
         REol>>)

\* r"^(\s*)-\s+([a-zA-Z_][a-zA-Z0-9_]*)\s*:\s*(.*)$"
yaml_property_pattern ==
  RCat(<<RBol, RGrp(1, RStar(RSpace)), RSet({"-"}), RPlus(RSpace),
         RGrp(2, RCat(<<RSet(IdentStart), RStar(RSet(WordCh))>>)),
         RStar(RSpace), RSet({":"}), RStar(RSpace), RGrp(3, RStar(RDot)), REol>>)

\* r"^(\s*)-\s+-\s+(.*)$"
double_dash_pattern ==
  RCat(<<RBol, RGrp(1, RStar(RSpace)), RSet({"-"}), RPlus(RSpace), RSet({"-"}),
         RPlus(RSpace), RGrp(2, RStar(RDot)), REol>>)

\* r"^( )(timeout|type):\s*(.*)$"
list_continuation_pattern ==
  RCat(<<RBol, RGrp(1, RSet({" "})), RGrp(2, RAlt(<<RLit(W_timeout), RLit(W_type)>>)),
         RSet({":"}), RStar(RSpace), RGrp(3, RStar(RDot)), REol>>)

\* r"^(\s*)-\s+([^:]+)$"
continuation_pattern ==
  RCat(<<RBol, RGrp(1, RStar(RSpace)), RSet({"-"}), RPlus(RSpace),
         RGrp(2, RPlus(RNot({":"}))), REol>>)

\* r"^( )(machine\.openshift\.io/.*)$"
machine_pattern ==
  RCat(<<RBol, RGrp(1, RSet({" "})), RGrp(2, RCat(<<RLit(W_machine), RStar(RDot)>>)), REol>>)

\* rest_of_line.split(":")[0]
BeforeColon(s) ==
  IF \E k \in 1..Len(s) : s[k] = ":"
  THEN Slice(s, 1, (CHOOSE k \in 1..Len(s) : s[k] = ":" /\ \A j \in 1..(k-1) : s[j] # ":") - 1)
  ELSE s

\* a variant of PropertyIndent that gives every property the default level
PropertyIndentDefault(property_name) == 2

\* the indentation chosen for a property name (the if/elif chain of _fix_yaml_line)
PropertyIndent(property_name) ==
  IF property_name \in {W_name, W_namespace} THEN 2
  ELSE IF property_name \in {W_maxUnhealthy, W_nodeStartupTimeout, W_selector,
                             W_unhealthyConditions} THEN 2
  ELSE IF property_name \in {W_matchLabels} THEN 4
  ELSE IF StartsWith(property_name, W_machine) THEN 6
  ELSE IF property_name \in {W_timeout, W_type} THEN 4
  ELSE 2

\* continuation_value.strip().startswith(("-", "*", "status:", "timeout:", "type:"))
LooksLikeListItem(v) ==
  \/ StartsWith(Strip(v), <<"-">>)
  \/ StartsWith(Strip(v), <<"*">>)
  \/ StartsWith(Strip(v), <<"s","t","a","t","u","s",":">>)
  \/ StartsWith(Strip(v), <<"t","i","m","e","o","u","t",":">>)
  \/ StartsWith(Strip(v), <<"t","y","p","e",":">>)

\* a variant of FixYamlRule that tries the dash-before-property pattern before
\* the two one-space patterns
FixYamlRulePropertyFirst(line) ==
  IF Strip(line) = <<>> THEN 0
  ELSE IF ReMatches(yaml_property_pattern, NoFlags, line) THEN 3
  ELSE IF ReMatches(list_item_pattern, NoFlags, line) THEN 1
  ELSE IF ReMatches(single_space_pattern, NoFlags, line) THEN 2
  ELSE IF ReMatches(double_dash_pattern, NoFlags, line) THEN 4
  ELSE IF ReMatches(list_continuation_pattern, NoFlags, line) THEN 5
  ELSE IF /\ ReMatches(continuation_pattern, NoFlags, line)
          /\ ~LooksLikeListItem(Group(line, ReMatch(continuation_pattern, NoFlags, line)[1], 2))
       THEN 6
  ELSE 0

\* the number (1..6) of the branch of _fix_yaml_line that returns, 0 for "unchanged"
FixYamlRule(line) ==
  IF Strip(line) = <<>> THEN 0
  ELSE IF ReMatches(list_item_pattern, NoFlags, line) THEN 1
  ELSE IF ReMatches(single_space_pattern, NoFlags, line) THEN 2
  ELSE IF ReMatches(yaml_property_pattern, NoFlags, line) THEN 3
  ELSE IF ReMatches(double_dash_pattern, NoFlags, line) THEN 4
  ELSE IF ReMatches(list_continuation_pattern, NoFlags, line) THEN 5
  ELSE IF /\ ReMatches(continuation_pattern, NoFlags, line)
          /\ ~LooksLikeListItem(Group(line, ReMatch(continuation_pattern, NoFlags, line)[1], 2))
       THEN 6
  ELSE 0

\* _fix_yaml_line
FixYamlLine(line) ==
  LET rule == FixYamlRule(line) IN
  CASE rule = 1 ->
         LET m == ReMatch(list_item_pattern, NoFlags, line)[1]
         IN <<" ", " ", "-", " ">> \o Group(line, m, 2)
    [] rule = 2 ->
         LET m == ReMatch(single_space_pattern, NoFlags, line)[1]
             rest_of_line == Group(line, m, 2)
             property_name == Strip(BeforeColon(rest_of_line))
         IN Spaces(PropertyIndent(property_name)) \o rest_of_line
    [] rule = 3 ->
         LET m == ReMatch(yaml_property_pattern, NoFlags, line)[1]
         IN Group(line, m, 1) \o <<" ", " ">> \o Group(line, m, 2) \o <<":", " ">>
            \o Group(line, m, 3)
    [] rule = 4 ->
         LET m == ReMatch(double_dash_pattern, NoFlags, line)[1]
         IN Group(line, m, 1) \o <<" ", " ", "-", " ">> \o Group(line, m, 2)
    [] rule = 5 ->
         LET m == ReMatch(list_continuation_pattern, NoFlags, line)[1]
         IN Spaces(4) \o Group(line, m, 2) \o <<":", " ">> \o Group(line, m, 3)
    [] rule = 6 ->
         LET m == ReMatch(continuation_pattern, NoFlags, line)[1]
         IN Group(line, m, 1) \o Spaces(4) \o Group(line, m, 2)
    [] OTHER -> line

\* a variant of CleanYamlBlockContent that hands the lines back as they are
CleanYamlBlockContentAsIs(yaml_lines) == yaml_lines

\* _clean_yaml_block_content
CleanYamlBlockContent(yaml_lines) == [k \in 1..Len(yaml_lines) |-> FixYamlLine(yaml_lines[k])]

\* the tests of the loop of clean_yaml_structure
IsYamlFenceOpen(line) ==
  StartsWith(Strip(line), W_fence_yaml) \/ StartsWith(Strip(line), W_fence_yml)
IsFenceClose(line) == Strip(line) = W_fence

\* one iteration of the loop of clean_yaml_structure on loop state st
CleanYamlStep(st, line) ==
  IF IsYamlFenceOpen(line)
  THEN [st EXCEPT !.in_yaml_block = TRUE,
                  !.cleaned_lines = Append(@, line)]
  ELSE IF IsFenceClose(line) /\ st.in_yaml_block
  THEN [in_yaml_block |-> FALSE,
        yaml_block_lines |-> <<>>,
        cleaned_lines |-> Append(st.cleaned_lines \o CleanYamlBlockContent(st.yaml_block_lines),
                                 line)]
  ELSE IF st.in_yaml_block
  THEN [st EXCEPT !.yaml_block_lines = Append(@, line)]
  ELSE [st EXCEPT !.cleaned_lines = Append(@, line)]

RECURSIVE CleanYamlLoop(_, _, _)
CleanYamlLoop(lines, k, st) ==
  IF k > Len(lines) THEN st ELSE CleanYamlLoop(lines, k + 1, CleanYamlStep(st, lines[k]))

\* clean_yaml_structure
CleanYamlStructure(content) ==
  IF content = <<>> THEN content
  ELSE LET st == CleanYamlLoop(SplitLines(content), 1,
                               [in_yaml_block |-> FALSE, yaml_block_lines |-> <<>>,
                                cleaned_lines |-> <<>>])
       IN JoinLines(st.cleaned_lines \o CleanYamlBlockContent(st.yaml_block_lines))

\* _is_yaml_like_line
IsYamlLikeLine(line) ==
  /\ Strip(line) # <<>>
  /\ \/ ReMatches(single_space_pattern, NoFlags, line)
     \/ ReMatches(machine_pattern, NoFlags, line)
     \/ ReMatches(list_continuation_pattern, NoFlags, line)

\* clean_raw_yaml_indentation
CleanRawYamlIndentation(content) ==
  LET lines == SplitLines(content)
  IN JoinLines([k \in 1..Len(lines) |->
                  IF IsYamlLikeLine(lines[k]) THEN FixYamlLine(lines[k]) ELSE lines[k]])

\* clean_marker_output
CleanMarkerOutput(content) ==
  IF content = <<>> THEN content
  ELSE CleanRawYamlIndentation(CleanYamlStructure(content))

----------------------------------------------------------------------------
(* code_formatter.py: CodeFormatter.language_patterns and detect_language  *)

\* the insertion order of the language_patterns dict
LanguageOrder == <<"json", "yaml", "bash", "go", "python">>
Languages == Range(LanguageOrder)

\* r"^\s*[{\[]"
json_pattern_1 == RCat(<<RBol, RStar(RSpace), RSet({"{", "["})>>)
\* r'["\']:\s*["\']'
json_pattern_2 == RCat(<<RSet({"\"", "'"}), RSet({":"}), RStar(RSpace), RSet({"\"", "'"})>>)
\* r"\}\s*,?\s*$"
json_pattern_3 == RCat(<<RSet({"}"}), RStar(RSpace), ROpt(RSet({","})), RStar(RSpace), REol>>)

\* r"^\s*[a-zA-Z_][a-zA-Z0-9_]*\s*:"
yaml_pattern_1 ==
  RCat(<<RBol, RStar(RSpace), RSet(IdentStart), RStar(RSet(WordCh)), RStar(RSpace), RSet({":"})>>)
\* r"^\s*-\s+"
yaml_pattern_2 == RCat(<<RBol, RStar(RSpace), RSet({"-"}), RPlus(RSpace)>>)
\* r":\s*[|\>]"
yaml_pattern_3 == RCat(<<RSet({":"}), RStar(RSpace), RSet({"|", ">"})>>)

\* r"#!/bin/(bash|sh)"
bash_pattern_1 == RCat(<<RLit(<<"#","!","/","b","i","n","/">>), RAlt(<<RLit(<<"b","a","s","h">>), RLit(<<"s","h">>)>>)>>)
\* r"\$\{?[a-zA-Z_][a-zA-Z0-9_]*\}?"
bash_pattern_2 ==
  RCat(<<RSet({"$"}), ROpt(RSet({"{"})), RSet(IdentStart), RStar(RSet(WordCh)), ROpt(RSet({"}"}))>>)
\* r"\b(echo|if|then|else|elif|fi|for|while|do|done|case|esac|function)\b"
bash_pattern_3 ==
  RCat(<<RWb,
         RAlt(<<RLit(<<"e","c","h","o">>),
                RLit(<<"i","f">>),
                RLit(<<"t","h","e","n">>),
                RLit(<<"e","l","s","e">>),
                RLit(<<"e","l","i","f">>),
                RLit(<<"f","i">>),
                RLit(<<"f","o","r">>),
                RLit(<<"w","h","i","l","e">>),
                RLit(<<"d","o">>),
                RLit(<<"d","o","n","e">>),
                RLit(<<"c","a","s","e">>),
                RLit(<<"e","s","a","c">>),
                RLit(<<"f","u","n","c","t","i","o","n">>)>>),
         RWb>>)
\* r"^\s*[a-zA-Z_][a-zA-Z0-9_]*\s*="
bash_pattern_4 ==
  RCat(<<RBol, RStar(RSpace), RSet(IdentStart), RStar(RSet(WordCh)), RStar(RSpace), RSet({"="})>>)
\* r"\[\[.*\]\]"
bash_pattern_5 == RCat(<<RSet({"["}), RSet({"["}), RStar(RDot), RSet({"]"}), RSet({"]"})>>)
\* r"^\s*#(?!\s*[{\[])"
bash_pattern_6 ==
  RCat(<<RBol, RStar(RSpace), RSet({"#"}), RNla(RCat(<<RStar(RSpace), RSet({"{", "["})>>))>>)

\* r"\bpackage\s+\w+"
go_pattern_1 == RCat(<<RWb, RLit(<<"p","a","c","k","a","g","e">>), RPlus(RSpace), RPlus(RWord)>>)
\* r"\bfunc\s+\w*\s*\("
go_pattern_2 == RCat(<<RWb, RLit(<<"f","u","n","c">>), RPlus(RSpace), RStar(RWord), RStar(RSpace), RSet({"("})>>)
\* r"\bimport\s*\("
go_pattern_3 == RCat(<<RWb, RLit(<<"i","m","p","o","r","t">>), RStar(RSpace), RSet({"("})>>)
\* r"\bvar\s+\w+\s+\w+"
go_pattern_4 == RCat(<<RWb, RLit(<<"v","a","r">>), RPlus(RSpace), RPlus(RWord), RPlus(RSpace), RPlus(RWord)>>)
\* r"\b(defer|chan|select|interface|struct|range|map)\b"
go_pattern_5 ==
  RCat(<<RWb,
         RAlt(<<RLit(<<"d","e","f","e","r">>),
                RLit(<<"c","h","a","n">>),
                RLit(<<"s","e","l","e","c","t">>),
                RLit(<<"i","n","t","e","r","f","a","c","e">>),
                RLit(<<"s","t","r","u","c","t">>),
                RLit(<<"r","a","n","g","e">>),
                RLit(<<"m","a","p">>)>>),
         RWb>>)
\* r":="
go_pattern_6 == RCat(<<RSet({":"}), RSet({"="})>>)
\* r"^\s*//"
go_pattern_7 == RCat(<<RBol, RStar(RSpace), RSet({"/"}), RSet({"/"})>>)

\* r"^def\s+\w+\s*\("
python_pattern_1 ==
  RCat(<<RBol, RLit(<<"d","e","f">>), RPlus(RSpace), RPlus(RWord), RStar(RSpace), RSet({"("})>>)
\* r"^class\s+\w+"
python_pattern_2 == RCat(<<RBol, RLit(<<"c","l","a","s","s">>), RPlus(RSpace), RPlus(RWord)>>)
\* r"\bimport\s+\w+"
python_pattern_3 == RCat(<<RWb, RLit(<<"i","m","p","o","r","t">>), RPlus(RSpace), RPlus(RWord)>>)
\* r"\bfrom\s+\w+\s+import"
python_pattern_4 ==
  RCat(<<RWb, RLit(<<"f","r","o","m">>), RPlus(RSpace), RPlus(RWord), RPlus(RSpace), RLit(<<"i","m","p","o","r","t">>)>>)
\* r"\b(print|len|range|str|int|float|list|dict|tuple|set)\s*\("
python_pattern_5 ==
  RCat(<<RWb,
         RAlt(<<RLit(<<"p","r","i","n","t">>),
                RLit(<<"l","e","n">>),
                RLit(<<"r","a","n","g","e">>),
                RLit(<<"s","t","r">>),
                RLit(<<"i","n","t">>),
                RLit(<<"f","l","o","a","t">>),
                RLit(<<"l","i","s","t">>),
                RLit(<<"d","i","c","t">>),
                RLit(<<"t","u","p","l","e">>),
                RLit(<<"s","e","t">>)>>),
         RStar(RSpace), RSet({"("})>>)
\* r"^\s*#(?!\s*[{\[])"
python_pattern_6 ==
  RCat(<<RBol, RStar(RSpace), RSet({"#"}), RNla(RCat(<<RStar(RSpace), RSet({"{", "["})>>))>>)
\* r":\s*$"
python_pattern_7 == RCat(<<RSet({":"}), RStar(RSpace), REol>>)

\* self.language_patterns
language_patterns ==
  [l \in Languages |->
     CASE l = "json" -> <<json_pattern_1, json_pattern_2, json_pattern_3>>
       [] l = "yaml" -> <<yaml_pattern_1, yaml_pattern_2, yaml_pattern_3>>
       [] l = "bash" -> <<bash_pattern_1, bash_pattern_2, bash_pattern_3, bash_pattern_4,
                          bash_pattern_5, bash_pattern_6>>
       [] l = "go" -> <<go_pattern_1, go_pattern_2, go_pattern_3, go_pattern_4, go_pattern_5,
                        go_pattern_6, go_pattern_7>>
       [] l = "python" -> <<python_pattern_1, python_pattern_2, python_pattern_3,
                            python_pattern_4, python_pattern_5, python_pattern_6,
                            python_pattern_7>>]

W_shebang_bash == <<"#","!","/","b","i","n","/","b","a","s","h">>
W_shebang_sh == <<"#","!","/","b","i","n","/","s","h">>

\* r"^(VERBOSE|INPUT_FILE|NS)=" (used with re.match, re.MULTILINE)
shell_assignment_pattern ==
  RCat(<<RBol, RAlt(<<RLit(<<"V","E","R","B","O","S","E">>),
               RLit(<<"I","N","P","U","T","_","F","I","L","E">>),
               RLit(<<"N","S">>)>>), RSet({"="})>>)

\* ["while", "case", "esac", "done", "echo"]
FallbackKeywords ==
  <<<<"w","h","i","l","e">>,
    <<"c","a","s","e">>,
    <<"e","s","a","c">>,
    <<"d","o","n","e">>,
    <<"e","c","h","o">>>>

\* a variant of StrongSignature that looks for the assignment with re.search:
\* under re.MULTILINE it is found at the start of any line, not only at the
\* start of the fragment
StrongSignatureSearch(code_content) ==
  IF StartsWith(code_content, W_shebang_bash) \/ StartsWith(code_content, W_shebang_sh)
  THEN "bash"
  ELSE IF ReSearch(shell_assignment_pattern, FlagsM, code_content)
  THEN "bash"
  ELSE IF \/ (StartsWith(code_content, <<"{">>) /\ EndsWith(code_content, <<"}">>))
          \/ (StartsWith(code_content, <<"[">>) /\ EndsWith(code_content, <<"]">>))
  THEN "json"
  ELSE "none"

\* the "strong single indicators": "bash", "json", or "none"
StrongSignature(code_content) ==
  IF StartsWith(code_content, W_shebang_bash) \/ StartsWith(code_content, W_shebang_sh)
  THEN "bash"
  ELSE IF ReMatches(shell_assignment_pattern, FlagsM, code_content)
  THEN "bash"
  ELSE IF \/ (StartsWith(code_content, <<"{">>) /\ EndsWith(code_content, <<"}">>))
          \/ (StartsWith(code_content, <<"[">>) /\ EndsWith(code_content, <<"]">>))
  THEN "json"
  ELSE "none"

\* language_scores: the number of patterns of each language found in code_content
LanguageScores(code_content) ==
  [l \in Languages |->
     Cardinality({k \in 1..Len(language_patterns[l]) :
                    ReSearch(language_patterns[l][k], FlagsMI, code_content)})]

\* max(language_scores.values())
MaxScore(scores) == CHOOSE n \in {scores[l] : l \in Languages} : \A l \in Languages : scores[l] <= n

\* the first language with score >= 2 in dict order, "none" if there is none
FirstWithTwo(scores) ==
  IF \E k \in 1..Len(LanguageOrder) : scores[LanguageOrder[k]] >= 2
  THEN LanguageOrder[CHOOSE k \in 1..Len(LanguageOrder) :
                       /\ scores[LanguageOrder[k]] >= 2
                       /\ \A j \in 1..(k-1) : scores[LanguageOrder[j]] < 2]
  ELSE "none"

\* a variant of ScoreChoice that returns the language with the highest score
\* (the first of them in dict order), "none" if no language reaches 2
ScoreChoiceOfMax(scores) ==
  IF MaxScore(scores) < 2 THEN "none"
  ELSE LanguageOrder[CHOOSE k \in 1..Len(LanguageOrder) :
                       /\ scores[LanguageOrder[k]] = MaxScore(scores)
                       /\ \A j \in 1..(k-1) : scores[LanguageOrder[j]] < MaxScore(scores)]

\* "Priority 3": the choice made from the scores, "none" if no language reaches 2
ScoreChoice(scores) ==
  IF scores["bash"] >= 2 /\ scores["bash"] >= MaxScore(scores) THEN "bash"
  ELSE FirstWithTwo(scores)

\* a variant of FallbackChoice that looks for the keywords in the fragment as
\* written, without lowering it
FallbackChoiceAsWritten(code_content) ==
  IF \E k \in 1..Len(FallbackKeywords) : Contains(code_content, FallbackKeywords[k])
  THEN "bash" ELSE "text"

\* "Priority 4": the keyword fallback
FallbackChoice(code_content) ==
  IF \E k \in 1..Len(FallbackKeywords) : Contains(StrLower(code_content), FallbackKeywords[k])
  THEN "bash" ELSE "text"

\* "Priority 3" and "Priority 4": the choice made once the scores are known
DetectFromScores(code_content, scores) ==
  IF ScoreChoice(scores) # "none" THEN ScoreChoice(scores)
  ELSE FallbackChoice(code_content)

\* detect_language on the stripped content
DetectStripped(code_content) ==
  IF code_content = <<>> THEN "text"
  ELSE IF StrongSignature(code_content) # "none" THEN StrongSignature(code_content)
  ELSE DetectFromScores(code_content, LanguageScores(code_content))

\* detect_language
DetectLanguage(code_content) == DetectStripped(Strip(code_content))

----------------------------------------------------------------------------
(* code_formatter.py: the line-oriented formatters                         *)

\* len(line) - len(line.lstrip())
LeadingWS(line) == FirstNonWS(line) - 1

\* s.split(":", 1)[1] for a string that contains ":"
AfterColon(s) ==
  From(s, (CHOOSE k \in 1..Len(s) : s[k] = ":" /\ \A j \in 1..(k-1) : s[j] # ":") + 1)

\* a variant of FormatYamlLine that keeps the leading whitespace count as it is
FormatYamlLineUnrounded(line) ==
  LET stripped == Strip(line)
  IN IF stripped = <<>> \/ StartsWith(stripped, <<"#">>) THEN stripped
     ELSE Spaces(LeadingWS(line)) \o stripped

\* the body of the loop of format_yaml
FormatYamlLine(line) ==
  LET stripped == Strip(line)
      normalized_indent == (LeadingWS(line) \div 2) * 2
  IN IF stripped = <<>> \/ StartsWith(stripped, <<"#">>) THEN stripped
     ELSE IF Contains(stripped, <<":">>) /\ ~StartsWith(stripped, <<"-">>)
     THEN Spaces(normalized_indent) \o Strip(BeforeColon(stripped)) \o <<":", " ">>
          \o Strip(AfterColon(stripped))
     ELSE IF StartsWith(stripped, <<"-">>)
     THEN Spaces(normalized_indent) \o <<"-", " ">> \o Strip(From(stripped, 2))
     ELSE Spaces(normalized_indent) \o stripped

\* format_yaml
FormatYaml(content) ==
  LET lines == SplitLines(content)
  IN JoinLines([k \in 1..Len(lines) |-> FormatYamlLine(lines[k])])

\* a variant of Dec without the clamp: indent_level - 1
DecUnclamped(indent_level) == indent_level - 1

\* max(0, indent_level - 1)
Dec(indent_level) == IF indent_level - 1 > 0 THEN indent_level - 1 ELSE 0

W_fi == <<"f","i">>
W_done == <<"d","o","n","e">>
W_esac == <<"e","s","a","c">>
W_else == <<"e","l","s","e">>
W_elif == <<"e","l","i","f">>
W_then == <<"t","h","e","n">>
W_do == <<"d","o">>
W_case == <<"c","a","s","e">>
W_semis == <<";", ";">>
\* decrease_indent_keywords = ["fi", "done", "esac", "}", ";;"]
decrease_indent_keywords == <<W_fi, W_done, W_esac, <<"}">>, W_semis>>
\* same_level_keywords = ["else", "elif", ";;", "esac"]
same_level_keywords == <<W_else, W_elif, W_semis, W_esac>>

\* a variant of bash_variable_pattern that also takes an opening brace,
\* r"\$\{?([a-zA-Z_][a-zA-Z0-9_]*)": it finds the variable it has already braced
bash_variable_pattern_braced ==
  RCat(<<RSet({"$"}), ROpt(RSet({"{"})),
         RGrp(1, RCat(<<RSet(IdentStart), RStar(RSet(WordCh))>>))>>)

\* r"\$([a-zA-Z_][a-zA-Z0-9_]*)\b(?![}])"
bash_variable_pattern ==
  RCat(<<RSet({"$"}), RGrp(1, RCat(<<RSet(IdentStart), RStar(RSet(WordCh))>>)), RWb,
         RNla(RSet({"}"}))>>)

\* re.sub(bash_variable_pattern, r"${\1}", s), scanning from position i
RECURSIVE SubVariables(_, _)
SubVariables(s, i) ==
  IF i > Len(s) THEN <<>>
  ELSE LET ms == ReM(bash_variable_pattern, NoFlags, s, i, <<>>)
       IN IF ms = <<>> THEN <<s[i]>> \o SubVariables(s, i + 1)
          ELSE <<"$", "{">> \o Group(s, ms[1], 1) \o <<"}">> \o SubVariables(s, ms[1].e)

\* formatted_line of format_bash
NormalizeVariables(stripped) == SubVariables(stripped, 1)

\* stripped.split(): the whitespace-separated words
RECURSIVE SplitWords(_)
SplitWords(s) ==
  LET t == LStrip(s)
  IN IF t = <<>> THEN <<>>
     ELSE LET e == IF \E k \in 1..Len(t) : t[k] \in WS
                   THEN (CHOOSE k \in 1..Len(t) : t[k] \in WS /\ \A j \in 1..(k-1) : t[j] \notin WS) - 1
                   ELSE Len(t)
          IN <<Slice(t, 1, e)>> \o SplitWords(From(t, e + 1))

\* r".*\)\s*$"
case_arm_pattern == RCat(<<RStar(RDot), RSet({")"}), RStar(RSpace), REol>>)

\* a variant of BashTempIndent that renders every line at the current level
BashTempIndentCurrent(stripped, indent_level) == indent_level

\* the level a line of format_bash is rendered at (temp_indent)
BashTempIndent(stripped, indent_level) ==
  LET same_level ==
        \E k \in 1..Len(same_level_keywords) :
          LET keyword == same_level_keywords[k]
          IN \/ StartsWith(stripped, keyword \o <<" ">>)
             \/ stripped = keyword
             \/ StartsWith(stripped, keyword \o <<")">>)
      closing ==
        \/ stripped \in Range(decrease_indent_keywords)
        \/ StartsWith(stripped, W_semis)
        \/ stripped = <<"}">>
        \/ StartsWith(stripped, <<"}">>)
        \/ stripped = W_fi
        \/ stripped = W_done
        \/ stripped = W_esac
  IN IF same_level \/ closing THEN Dec(indent_level) ELSE indent_level

\* the level after a line of format_bash ("Update indent level for next line")
BashNextIndent(stripped, indent_level) ==
  LET ends_then_do ==
        \E keyword \in {W_then, W_do} :
          EndsWith(stripped, <<" ">> \o keyword) \/ EndsWith(stripped, keyword)
      opener_word ==
        \E word \in {<<"i","f">>, <<"w","h","i","l","e">>, <<"f","o","r">>, <<"f","u","n","c","t","i","o","n">>} : word \in Range(SplitWords(stripped))
      arm == ReMatches(case_arm_pattern, NoFlags, stripped)
  IN IF \/ ends_then_do
        \/ EndsWith(stripped, <<"{">>)
        \/ (opener_word /\ (EndsWith(stripped, W_then) \/ EndsWith(stripped, W_do)))
        \/ (arm /\ Contains(stripped, W_case))
     THEN indent_level + 1
     ELSE IF StartsWith(stripped, W_case \o <<" ">>) \/ arm
     THEN IF ~\E k \in 1..Len(decrease_indent_keywords) :
                Contains(stripped, decrease_indent_keywords[k])
          THEN indent_level + 1
          ELSE indent_level
     ELSE IF \E k \in 1..Len(decrease_indent_keywords) :
               StartsWith(stripped, decrease_indent_keywords[k])
     THEN Dec(indent_level)
     ELSE indent_level

\* a variant of BashStep that keeps a comment line as it is in the content,
\* leading whitespace included
BashStepKeepingComments(st, line) ==
  LET stripped == Strip(line)
  IN IF stripped = <<>>
     THEN [st EXCEPT !.formatted_lines = Append(@, <<>>)]
     ELSE IF StartsWith(stripped, <<"#">>)
     THEN [st EXCEPT !.formatted_lines = Append(@, line)]
     ELSE [indent_level |-> BashNextIndent(stripped, st.indent_level),
           formatted_lines |->
             Append(st.formatted_lines,
                    Spaces(2 * BashTempIndent(stripped, st.indent_level))
                      \o NormalizeVariables(stripped))]

\* one iteration of the loop of format_bash on st = [indent_level, formatted_lines]
BashStep(st, line) ==
  LET stripped == Strip(line)
  IN IF stripped = <<>>
     THEN [st EXCEPT !.formatted_lines = Append(@, <<>>)]
     ELSE IF StartsWith(stripped, <<"#">>)
     THEN [st EXCEPT !.formatted_lines = Append(@, Spaces(2 * st.indent_level) \o stripped)]
     ELSE [indent_level |-> BashNextIndent(stripped, st.indent_level),
           formatted_lines |->
             Append(st.formatted_lines,
                    Spaces(2 * BashTempIndent(stripped, st.indent_level))
                      \o NormalizeVariables(stripped))]

\* r'^(if|for|func|switch|select|type|struct)\b.*{$'
go_block_pattern ==
  RCat(<<RBol,
         RAlt(<<RLit(<<"i","f">>),
               RLit(<<"f","o","r">>),
               RLit(<<"f","u","n","c">>),
               RLit(<<"s","w","i","t","c","h">>),
               RLit(<<"s","e","l","e","c","t">>),
               RLit(<<"t","y","p","e">>),
               RLit(<<"s","t","r","u","c","t">>)>>),
         RWb, RStar(RDot), RSet({"{"}), REol>>)
\* r'^(func)\b.*\($'
go_func_pattern == RCat(<<RBol, RLit(<<"f","u","n","c">>), RWb, RStar(RDot), RSet({"("}), REol>>)
\* r'^(else|elif|except|finally|case)\b'
python_dedent_pattern ==
  RCat(<<RBol,
         RAlt(<<RLit(<<"e","l","s","e">>),
               RLit(<<"e","l","i","f">>),
               RLit(<<"e","x","c","e","p","t">>),
               RLit(<<"f","i","n","a","l","l","y">>),
               RLit(<<"c","a","s","e">>)>>),
         RWb>>)

\* indent_level of format_go once "Decrease indent for closing braces" has run:
\* the level the line is rendered at
GoLevel(stripped, indent_level) ==
  IF stripped \in {<<"}">>, <<"}", ")", ":">>, <<"}", ",">>, <<"]", ";">>}
  THEN Dec(indent_level) ELSE indent_level

\* one iteration of the loop of format_go
GoStep(st, line) ==
  LET stripped == Strip(line)
      level == GoLevel(stripped, st.indent_level)
      opens ==
        \/ EndsWith(stripped, <<"{">>)
        \/ (EndsWith(stripped, <<"(">>) /\ Len(stripped) > 10)
        \/ EndsWith(stripped, <<"[">>)
        \/ ReMatches(go_block_pattern, NoFlags, stripped)
        \/ ReMatches(go_func_pattern, NoFlags, stripped)
  IN IF stripped = <<>>
     THEN [st EXCEPT !.formatted_lines = Append(@, <<>>)]
     ELSE IF StartsWith(stripped, <<"/", "/">>)
     THEN [st EXCEPT !.formatted_lines = Append(@, Tabs(st.indent_level) \o stripped)]
     ELSE [indent_level |-> IF opens THEN level + 1 ELSE level,
           formatted_lines |-> Append(st.formatted_lines, Tabs(level) \o stripped)]

\* indent_level of format_python once the dedenting keywords and closing
\* brackets have been handled: the level the line is rendered at
PythonLevel(stripped, indent_level) ==
  IF \/ ReMatches(python_dedent_pattern, NoFlags, stripped)
     \/ stripped \in {<<")">>, <<"]">>, <<"}">>}
  THEN Dec(indent_level) ELSE indent_level

\* one iteration of the loop of format_python
PythonStep(st, line) ==
  LET stripped == Strip(line)
      level == PythonLevel(stripped, st.indent_level)
      indents ==
        \/ (EndsWith(stripped, <<":">>) /\ ~StartsWith(stripped, <<"#">>))
        \/ EndsWith(stripped, <<"(">>) \/ EndsWith(stripped, <<"[">>)
        \/ EndsWith(stripped, <<"{">>)
  IN IF stripped = <<>>
     THEN [st EXCEPT !.formatted_lines = Append(@, <<>>)]
     ELSE IF StartsWith(stripped, <<"#">>)
     THEN [st EXCEPT !.formatted_lines = Append(@, Spaces(4 * st.indent_level) \o stripped)]
     ELSE [indent_level |-> IF indents THEN level + 1 ELSE level,
           formatted_lines |-> Append(st.formatted_lines, Spaces(4 * level) \o stripped)]

\* the for loop of a formatter: Step applied to lines k.. from state st
RECURSIVE FormatLoop(_, _, _, _)
FormatLoop(lang, lines, k, st) ==
  IF k > Len(lines) THEN st
  ELSE FormatLoop(lang, lines, k + 1,
                  CASE lang = "bash" -> BashStep(st, lines[k])
                    [] lang = "go" -> GoStep(st, lines[k])
                    [] lang = "python" -> PythonStep(st, lines[k]))

FormatInit == [indent_level |-> 0, formatted_lines |-> <<>>]

\* format_bash
FormatBash(content) ==
  JoinLines(FormatLoop("bash", SplitLines(content), 1, FormatInit).formatted_lines)
\* format_go
FormatGo(content) ==
  JoinLines(FormatLoop("go", SplitLines(content), 1, FormatInit).formatted_lines)
\* format_python
FormatPython(content) ==
  JoinLines(FormatLoop("python", SplitLines(content), 1, FormatInit).formatted_lines)

----------------------------------------------------------------------------
(* json.loads and json.dumps as format_json uses them                      *)
(*                                                                         *)
(* Covered: objects, arrays, strings with the escapes \" and \\, integers, *)
(* true, false, null.  Not covered (absent from every input of this        *)
(* module): fractions and exponents, NaN and Infinity, the other escapes.  *)
(* A JSON value is [k |-> kind, v |-> payload]: an integer, the characters *)
(* of a string, the name of a literal, a sequence of values, or a function *)
(* from keys to values (a later duplicate of a key replaces the earlier).  *)

\* the nesting depth at which the decoder gives up with RecursionError
\* (sys.getrecursionlimit(), scaled down to the size of the inputs)
RecursionLimit == 2

\* whitespace of the JSON grammar
JsonWS == {" ", "\t", "\n", "\r"}
\* characters that may not appear raw inside a string (strict mode)
JsonControl == {"\n", "\t", "\r", "\f"}

DigitOrder == <<"0","1","2","3","4","5","6","7","8","9">>
DigitVal(ch) == (CHOOSE k \in 1..10 : DigitOrder[k] = ch) - 1

\* the first position >= i that is not JSON whitespace
RECURSIVE SkipWS(_, _)
SkipWS(s, i) == IF i <= Len(s) /\ s[i] \in JsonWS THEN SkipWS(s, i + 1) ELSE i

JFail(err) == [ok |-> FALSE, err |-> err]
JOk(v, e) == [ok |-> TRUE, v |-> v, e |-> e]

\* the characters of a string whose opening quote is at i-1; acc is what was read
RECURSIVE ScanString(_, _, _)
ScanString(s, i, acc) ==
  IF i > Len(s) THEN JFail("JSONDecodeError")
  ELSE IF s[i] = "\"" THEN JOk(acc, i + 1)
  ELSE IF s[i] = "\\"
  THEN IF i + 1 <= Len(s) /\ s[i+1] \in {"\"", "\\"}
       THEN ScanString(s, i + 2, Append(acc, s[i+1]))
       ELSE JFail("JSONDecodeError")
  ELSE IF s[i] \in JsonControl THEN JFail("JSONDecodeError")
  ELSE ScanString(s, i + 1, Append(acc, s[i]))

\* the digits of a number from position i on; acc is their value
RECURSIVE ScanDigits(_, _, _)
ScanDigits(s, i, acc) ==
  IF i <= Len(s) /\ s[i] \in Digits THEN ScanDigits(s, i + 1, 10 * acc + DigitVal(s[i]))
  ELSE JOk(acc, i)

\* -?(0|[1-9][0-9]*)
ScanNumber(s, i) ==
  LET neg == s[i] = "-"
      j == IF neg THEN i + 1 ELSE i
  IN IF j > Len(s) \/ s[j] \notin Digits THEN JFail("JSONDecodeError")
     ELSE LET d == IF s[j] = "0" THEN JOk(0, j + 1) ELSE ScanDigits(s, j, 0)
          IN JOk([k |-> "int", v |-> IF neg THEN 0 - d.v ELSE d.v], d.e)

W_true == <<"t","r","u","e">>
W_false == <<"f","a","l","s","e">>
W_null == <<"n","u","l","l">>

RECURSIVE ScanValue(_, _, _)
RECURSIVE ScanArray(_, _, _, _)
RECURSIVE ScanObject(_, _, _, _)

\* the JSON value that starts at position i, nested in depth enclosing containers
ScanValue(s, i, depth) ==
  IF i > Len(s) THEN JFail("JSONDecodeError")
  ELSE IF s[i] = "\""
  THEN LET r == ScanString(s, i + 1, <<>>)
       IN IF r.ok THEN JOk([k |-> "str", v |-> r.v], r.e) ELSE r
  ELSE IF s[i] \in {"{", "["}
  THEN IF depth + 1 > RecursionLimit THEN JFail("RecursionError")
       ELSE LET j == SkipWS(s, i + 1)
            IN IF s[i] = "{"
               THEN IF j <= Len(s) /\ s[j] = "}" THEN JOk([k |-> "obj", v |-> <<>>], j + 1)
                    ELSE ScanObject(s, j, depth + 1, <<>>)
               ELSE IF j <= Len(s) /\ s[j] = "]" THEN JOk([k |-> "arr", v |-> <<>>], j + 1)
                    ELSE ScanArray(s, j, depth + 1, <<>>)
  ELSE IF s[i] = "-" \/ s[i] \in Digits THEN ScanNumber(s, i)
  ELSE IF \E w \in {W_true, W_false, W_null} : StartsWith(From(s, i), w)
  THEN LET w == CHOOSE w \in {W_true, W_false, W_null} : StartsWith(From(s, i), w)
       IN JOk([k |-> "lit", v |-> w], i + Len(w))
  ELSE JFail("JSONDecodeError")

\* the elements of an array from position i on (at an element); acc is what was read
ScanArray(s, i, depth, acc) ==
  LET r == ScanValue(s, i, depth)
  IN IF ~r.ok THEN r
     ELSE LET j == SkipWS(s, r.e)
          IN IF j > Len(s) THEN JFail("JSONDecodeError")
             ELSE IF s[j] = "]" THEN JOk([k |-> "arr", v |-> Append(acc, r.v)], j + 1)
             ELSE IF s[j] = "," THEN ScanArray(s, SkipWS(s, j + 1), depth, Append(acc, r.v))
             ELSE JFail("JSONDecodeError")

\* the members of an object from position i on (at a key); acc is what was read
ScanObject(s, i, depth, acc) ==
  IF i > Len(s) \/ s[i] # "\"" THEN JFail("JSONDecodeError")
  ELSE LET key == ScanString(s, i + 1, <<>>)
       IN IF ~key.ok THEN key
          ELSE LET c == SkipWS(s, key.e)
               IN IF c > Len(s) \/ s[c] # ":" THEN JFail("JSONDecodeError")
                  ELSE LET r == ScanValue(s, SkipWS(s, c + 1), depth)
                       IN IF ~r.ok THEN r
                          ELSE LET j == SkipWS(s, r.e)
                                   members ==
                                     [x \in (DOMAIN acc) \cup {key.v} |->
                                        IF x = key.v THEN r.v ELSE acc[x]]
                               IN IF j > Len(s) THEN JFail("JSONDecodeError")
                                  ELSE IF s[j] = "}"
                                  THEN JOk([k |-> "obj", v |-> members], j + 1)
                                  ELSE IF s[j] = ","
                                  THEN ScanObject(s, SkipWS(s, j + 1), depth, members)
                                  ELSE JFail("JSONDecodeError")

\* json.loads(content): [ok |-> TRUE, v |-> value] or [ok |-> FALSE, err |-> exception]
JsonLoads(content) ==
  LET r == ScanValue(content, SkipWS(content, 1), 0)
  IN IF ~r.ok THEN r
     ELSE IF SkipWS(content, r.e) # Len(content) + 1 THEN JFail("JSONDecodeError")
     ELSE r

\* the printable ASCII characters in code point order (BT stands at the place
\* of the grave accent)
AsciiOrder ==
  <<" ", "!", "\"", "#", "$", "%", "&", "'", "(", ")", "*", "+", ",", "-", ".", "/",
    "0", "1", "2", "3", "4", "5", "6", "7", "8", "9", ":", ";", "<", "=", ">", "?", "@">>
  \o UpperLetters \o <<"[", "\\", "]", "^", "_", BT>> \o LowerLetters \o <<"{", "|", "}">>
Ord(ch) == CHOOSE k \in 1..Len(AsciiOrder) : AsciiOrder[k] = ch

\* a < b for Python strings
RECURSIVE StrLess(_, _)
StrLess(a, b) ==
  IF b = <<>> THEN FALSE
  ELSE IF a = <<>> THEN TRUE
  ELSE IF a[1] = b[1] THEN StrLess(Tail(a), Tail(b))
  ELSE Ord(a[1]) < Ord(b[1])

\* sorted(keys)
RECURSIVE SortKeys(_)
SortKeys(keys) ==
  IF keys = {} THEN <<>>
  ELSE LET least == CHOOSE x \in keys : \A y \in keys \ {x} : StrLess(x, y)
       IN <<least>> \o SortKeys(keys \ {least})

\* str(n) for n >= 0
RECURSIVE NatToStr(_)
NatToStr(n) ==
  IF n < 10 THEN <<DigitOrder[n + 1]>> ELSE NatToStr(n \div 10) \o <<DigitOrder[(n % 10) + 1]>>
\* str(n)
IntToStr(n) == IF n < 0 THEN <<"-">> \o NatToStr(0 - n) ELSE NatToStr(n)

\* the quoted form of a string (ensure_ascii=False)
RECURSIVE EscapeChars(_)
EscapeChars(w) ==
  IF w = <<>> THEN <<>>
  ELSE (IF w[1] \in {"\"", "\\"} THEN <<"\\", w[1]>> ELSE <<w[1]>>) \o EscapeChars(Tail(w))
QuoteString(w) == <<"\"">> \o EscapeChars(w) \o <<"\"">>

RECURSIVE Encode(_, _)
RECURSIVE EncodeItems(_, _, _)
RECURSIVE EncodeMembers(_, _, _)

\* the elements k.. of an array at nesting level, each on its own line
EncodeItems(items, k, level) ==
  IF k > Len(items) THEN <<>>
  ELSE <<"\n">> \o Spaces(2 * level) \o Encode(items[k], level)
       \o (IF k < Len(items) THEN <<",">> ELSE <<>>) \o EncodeItems(items, k + 1, level)

\* the members of an object for the sorted keys k.., each on its own line
EncodeMembers(obj, keys, level) ==
  IF keys = <<>> THEN <<>>
  ELSE <<"\n">> \o Spaces(2 * level) \o QuoteString(keys[1]) \o <<":", " ">>
       \o Encode(obj[keys[1]], level)
       \o (IF Len(keys) > 1 THEN <<",">> ELSE <<>>) \o EncodeMembers(obj, Tail(keys), level)

\* json.dumps(value, indent=2, ensure_ascii=False, sort_keys=True) at nesting level
Encode(val, level) ==
  CASE val.k = "str" -> QuoteString(val.v)
    [] val.k = "int" -> IntToStr(val.v)
    [] val.k = "lit" -> val.v
    [] val.k = "arr" ->
         IF val.v = <<>> THEN <<"[", "]">>
         ELSE <<"[">> \o EncodeItems(val.v, 1, level + 1) \o <<"\n">> \o Spaces(2 * level)
              \o <<"]">>
    [] val.k = "obj" ->
         IF DOMAIN val.v = {} THEN <<"{", "}">>
         ELSE <<"{">> \o EncodeMembers(val.v, SortKeys(DOMAIN val.v), level + 1) \o <<"\n">>
              \o Spaces(2 * level) \o <<"}">>

JsonDumps(val) == Encode(val, 0)

\* format_json: [raised |-> FALSE, out |-> text] or [raised |-> TRUE, err |-> exception].
\* JSONDecodeError is re-raised only with raise_on_error; any other exception of
\* json.loads passes through the except clause
FormatJson(content, raise_on_error) ==
  LET parsed == JsonLoads(content)
  IN IF parsed.ok THEN [raised |-> FALSE, out |-> JsonDumps(parsed.v)]
     ELSE IF parsed.err = "JSONDecodeError" /\ ~raise_on_error
     THEN [raised |-> FALSE, out |-> content]
     ELSE [raised |-> TRUE, err |-> parsed.err]

----------------------------------------------------------------------------
(* indentation_preserver.py: IndentationPreserver                          *)

\* a language tag as text
LangChars(l) ==
  CASE l = "json" -> <<"j","s","o","n">>
    [] l = "yaml" -> <<"y","a","m","l">>
    [] l = "bash" -> <<"b","a","s","h">>
    [] l = "go" -> <<"g","o">>
    [] l = "python" -> <<"p","y","t","h","o","n">>
    [] l = "text" -> <<"t","e","x","t">>

\* a language hint is text; the empty text stands for None (the code only ever
\* tests a hint for truth before comparing it)
NoHint == <<>>

\* _simple_language_detection
SimpleLanguageDetection(content) ==
  IF StartsWith(content, W_shebang_bash) \/ StartsWith(content, W_shebang_sh) THEN "bash"
  ELSE IF StartsWith(Strip(content), <<"{">>) /\ EndsWith(Strip(content), <<"}">>) THEN "json"
  ELSE IF StartsWith(Strip(content), <<"[">>) /\ EndsWith(Strip(content), <<"]">>) THEN "json"
  ELSE IF \/ Contains(StrLower(content), <<"e","c","h","o"," ">>)
          \/ Contains(StrLower(content), <<"i","f"," ","[">>)
          \/ Contains(content, <<"$", "(">>)
  THEN "bash"
  ELSE IF \/ Contains(content, <<"-", "-", "-">>)
          \/ Contains(content, <<"a","p","i","V","e","r","s","i","o","n",":">>)
          \/ Contains(content, <<"k","i","n","d",":">>)
  THEN "yaml"
  ELSE "text"

\* the body of the loop of preserve_indentation
PreserveLine(line, min_cleanup) ==
  IF min_cleanup THEN (IF Strip(line) = <<>> THEN <<>> ELSE RStrip(line)) ELSE line

\* preserve_indentation / format_with_preserved_indentation: <<content, language>>
PreserveIndentation(content, language_hint, min_cleanup) ==
  IF Strip(content) = <<>>
  THEN <<content, IF language_hint # NoHint THEN language_hint ELSE LangChars("text")>>
  ELSE LET lines == SplitLines(content)
           preserved_content ==
             JoinLines([k \in 1..Len(lines) |-> PreserveLine(lines[k], min_cleanup)])
       IN <<preserved_content,
            IF language_hint # NoHint THEN language_hint
            ELSE LangChars(SimpleLanguageDetection(preserved_content))>>

----------------------------------------------------------------------------
(* code_formatter.py: CodeFormatter.format_code_block                      *)

\* ["bash", "python", "go", "json", "yaml"] as text
RecognizedTags == {LangChars(l) : l \in Languages}

Returned(formatted_content, final_language) ==
  [raised |-> FALSE, formatted_content |-> formatted_content, final_language |-> final_language]
Raised(err) == [raised |-> TRUE, err |-> err]

\* the branch "if language == 'json'" of format_code_block
FormatAsJson(content) ==
  LET r == FormatJson(content, TRUE)
  IN IF ~r.raised THEN Returned(r.out, LangChars("json"))
     ELSE LET detected == DetectLanguage(content)
          IN IF detected # "json"
             THEN IF detected = "bash" THEN Returned(FormatBash(content), LangChars(detected))
                  ELSE IF detected = "yaml"
                  THEN Returned(FormatYaml(content), LangChars(detected))
                  ELSE Returned(content, LangChars(detected))
             ELSE Returned(content, LangChars("json"))

\* a variant of FormatByDetection that trims content no language is detected for
FormatByDetectionTrimming(content, language) ==
  LET detected == DetectLanguage(content)
  IN IF detected \in Languages
     THEN CASE detected = "json" ->
                 LET r == FormatJson(content, FALSE)
                 IN IF r.raised THEN Raised(r.err) ELSE Returned(r.out, LangChars(detected))
            [] detected = "yaml" -> Returned(FormatYaml(content), LangChars(detected))
            [] detected = "bash" -> Returned(FormatBash(content), LangChars(detected))
            [] detected = "go" -> Returned(FormatGo(content), LangChars(detected))
            [] detected = "python" -> Returned(FormatPython(content), LangChars(detected))
     ELSE Returned(Strip(content), language)

\* the final else branch of format_code_block ("Try auto-detection for unknown languages")
FormatByDetection(content, language) ==
  LET detected == DetectLanguage(content)
  IN IF detected \in Languages
     THEN CASE detected = "json" ->
                 LET r == FormatJson(content, FALSE)
                 IN IF r.raised THEN Raised(r.err) ELSE Returned(r.out, LangChars(detected))
            [] detected = "yaml" -> Returned(FormatYaml(content), LangChars(detected))
            [] detected = "bash" -> Returned(FormatBash(content), LangChars(detected))
            [] detected = "go" -> Returned(FormatGo(content), LangChars(detected))
            [] detected = "python" -> Returned(FormatPython(content), LangChars(detected))
     ELSE Returned(content, language)

\* the "standardized formatting" part of format_code_block (from "original_language =" on)
FormatStandardized(content, hint) ==
  LET language == IF hint = NoHint THEN LangChars(DetectLanguage(content)) ELSE hint
  IN CASE language = LangChars("json") -> FormatAsJson(content)
       [] language = LangChars("yaml") -> Returned(FormatYaml(content), language)
       [] language = LangChars("bash") -> Returned(FormatBash(content), language)
       [] language = LangChars("go") -> Returned(FormatGo(content), language)
       [] language = LangChars("python") -> Returned(FormatPython(content), language)
       [] OTHER -> FormatByDetection(content, language)

\* a variant of FormatCodeBlock in which preservation mode comes first: with
\* preserve_indentation every block goes to the preservation formatter
FormatCodeBlockPreserving(content, hint, preserve_indentation, min_cleanup) ==
  IF preserve_indentation
  THEN LET p == PreserveIndentation(content, hint, min_cleanup)
       IN Returned(p[1], p[2])
  ELSE FormatStandardized(content, hint)

\* format_code_block(content, language) of a CodeFormatter built with the given
\* preserve_indentation and min_cleanup
FormatCodeBlock(content, hint, preserve_indentation, min_cleanup) ==
  LET detected_language == IF hint # NoHint THEN hint ELSE LangChars(DetectLanguage(content))
  IN IF detected_language \notin RecognizedTags /\ preserve_indentation
     THEN LET p == PreserveIndentation(content, hint, min_cleanup)
          IN Returned(p[1], p[2])
     ELSE FormatStandardized(content, hint)

----------------------------------------------------------------------------
(* converter.py: PDFToMarkdownConverter._format_code_blocks                *)

\* r"```(\w+)?\n(.*?)```" (used with re.DOTALL)
code_block_pattern ==
  RCat(<<RLit(W_fence), ROpt(RGrp(1, RPlus(RWord))), RSet({"\n"}), RGrp(2, RLazy(RDot)),
         RLit(W_fence)>>)

\* whether code_block_pattern matches at position i
MatchesAt(s, i) == ReM(code_block_pattern, FlagsS, s, i, <<>>) # <<>>

\* whether re.sub finds a match at or after position pos
HasMatchFrom(s, pos) == \E i \in pos..Len(s) : MatchesAt(s, i)

\* the next match of re.sub at or after pos: [b |-> first position, e |-> position after
\* it, c |-> groups]
NextMatchFrom(s, pos) ==
  LET At(b, m) == [b |-> b, e |-> m.e, c |-> m.c]
      MatchAt(b) == At(b, ReM(code_block_pattern, FlagsS, s, b, <<>>)[1])
  IN MatchAt(CHOOSE i \in pos..Len(s) :
               MatchesAt(s, i) /\ \A j \in pos..(i - 1) : ~MatchesAt(s, j))

\* match.group(1) if match.group(1) else None
MatchLanguage(s, m) == IF 1 \in DOMAIN m.c THEN Group(s, m, 1) ELSE NoHint

\* a variant of BlockReplacement whose handler returns match.group(2), the content
\* without its fences and tag
BlockReplacementContentOnly(s, m, r) ==
  IF r.raised
  THEN [raised |-> TRUE, text |-> Group(s, m, 2)]
  ELSE [raised |-> FALSE,
        text |-> W_fence \o r.final_language \o <<"\n">> \o r.formatted_content
                 \o <<"\n">> \o W_fence]

\* what format_code_block_match returns when format_code_block has had the
\* outcome r: [raised |-> whether it raised, text |-> the replacement of the match]
BlockReplacement(s, m, r) ==
  IF r.raised
  THEN [raised |-> TRUE, text |-> Slice(s, m.b, m.e - 1)]
  ELSE [raised |-> FALSE,
        text |-> W_fence \o r.final_language \o <<"\n">> \o r.formatted_content
                 \o <<"\n">> \o W_fence]

\* a variant of FormatCodeBlockMatch whose formatter keeps the text it has been
\* handed: each call formats the blocks' text met so far followed by its own
FormatCodeBlockMatchKeeping(s, m) ==
  BlockReplacement(s, m, FormatCodeBlock(Slice(s, 1, m.b - 1) \o Group(s, m, 2),
                                         MatchLanguage(s, m), FALSE, TRUE))

\* format_code_block_match; self.formatter = CodeFormatter() has
\* preserve_indentation=False, min_cleanup=True
FormatCodeBlockMatch(s, m) ==
  BlockReplacement(s, m, FormatCodeBlock(Group(s, m, 2), MatchLanguage(s, m), FALSE, TRUE))

\* re.sub(code_block_pattern, format_code_block_match, s) from position pos on
RECURSIVE SubCodeBlocks(_, _)
SubCodeBlocks(s, pos) ==
  LET Replaced(m) ==
        Slice(s, pos, m.b - 1) \o FormatCodeBlockMatch(s, m).text \o SubCodeBlocks(s, m.e)
  IN IF ~HasMatchFrom(s, pos) THEN From(s, pos) ELSE Replaced(NextMatchFrom(s, pos))

\* _format_code_blocks
FormatCodeBlocks(markdown_content) == SubCodeBlocks(markdown_content, 1)

----------------------------------------------------------------------------
(* State                                                                   *)

VARIABLES
  \* repair pass (marker_cleaner.py): a document and two successive repairs of it
  raw_content,        \* the document handed to clean_marker_output
  structured,         \* what clean_yaml_structure returned in the latest call
  cleaned,            \* clean_marker_output(raw_content)
  recleaned,          \* clean_marker_output(cleaned)
  rpc,                \* "idle", "start", "once", "twice"
  \* classifier (CodeFormatter.detect_language)
  code_content,       \* the fragment handed to detect_language
  language_scores,    \* the dict of scores, <<>> while it has not been computed
  detected,           \* the language returned, "" before the call returns
  cpc,                \* "idle", "start", "done"
  \* block formatter (CodeFormatter.format_code_block), called twice
  preserve_indentation, \* the configuration of the CodeFormatter
  min_cleanup,
  content,            \* the content handed to the first call
  language,           \* the language hint of both calls, NoHint for None
  first,              \* outcome of format_code_block(content, language)
  second,             \* outcome of format_code_block(first.formatted_content, language)
  fpc,                \* "idle", "start", "once", "twice"
  \* orchestrator (PDFToMarkdownConverter._format_code_blocks)
  markdown_content,   \* the document handed to _format_code_blocks
  scan_text,          \* the text handed to re.sub, <<>> before the call
  pos,                \* the position re.sub has scanned up to
  formatted_doc,      \* the output assembled so far
  blocks,             \* per fenced block met: original text, replacement, raised
  dpc,                \* "idle", "start", "scan", "done"; "rescan", "redone" in a second call
  \* line-oriented formatters (format_yaml, format_bash, format_go, format_python):
  \* the loop over the lines of one content, and the result for a second content
  formatter,          \* "yaml", "bash", "go", "python"; "" when idle
  lines,              \* content.split("\n")
  alt_lines,          \* the lines of the second content
  line_idx,           \* the number of lines the loop has consumed
  indent_level,       \* the loop's indent_level
  render_level,       \* the level the last rendered line was indented to
  formatted_lines,    \* the loop's formatted_lines
  formatted,          \* what the formatter returned for lines
  alt_formatted,      \* what the formatter returned for alt_lines
  lpc,                \* "idle", "loop", "returned", "compared"
  \* preservation formatter (IndentationPreserver.preserve_indentation)
  preserver_min_cleanup, \* self.min_cleanup of the IndentationPreserver
  preserve_content,   \* the content handed to preserve_indentation
  language_hint,      \* its language hint, NoHint for None
  preserved,          \* the pair returned, <<>> before the call returns
  ppc,                \* "idle", "start", "done"
  \* per-line repair (MarkerOutputCleaner._fix_yaml_line)
  yaml_line,          \* the line handed to _fix_yaml_line
  fixed_line,         \* the line returned, <<>> before the call returns
  rule_applied,       \* the branch that returned (1..6), 0 for "unchanged"
  xpc,                \* "idle", "start", "done"
  \* downloader (ConfluenceDownloader.run)
  parent_lookup,      \* what get_parent_page_id does: "found", "missing", "raise"
  all_pages,          \* what each page of get_children_recursive will answer
  page_no,            \* the pages the loop of run has been through
  run_result,         \* the dict result of run
  wpc                 \* "idle", "start", "loop", "returned"

repairVars == <<raw_content, structured, cleaned, recleaned, rpc>>
classifyVars == <<code_content, language_scores, detected, cpc>>
formatVars == <<preserve_indentation, min_cleanup, content, language, first, second, fpc>>
docVars == <<markdown_content, scan_text, pos, formatted_doc, blocks, dpc>>
lineVars == <<formatter, lines, alt_lines, line_idx, indent_level, render_level,
              formatted_lines, formatted, alt_formatted, lpc>>
preserveVars == <<preserver_min_cleanup, preserve_content, language_hint, preserved, ppc>>
fixVars == <<yaml_line, fixed_line, rule_applied, xpc>>
downloadVars == <<parent_lookup, all_pages, page_no, run_result, wpc>>

vars == <<repairVars, classifyVars, formatVars, docVars, lineVars, preserveVars, fixVars,
          downloadVars>>

\* the components a specification does not exercise
IdleRepair ==
  raw_content = <<>> /\ structured = <<>> /\ cleaned = <<>> /\ recleaned = <<>> /\ rpc = "idle"
IdleClassify ==
  code_content = <<>> /\ language_scores = <<>> /\ detected = "" /\ cpc = "idle"
NoOutcome == [raised |-> FALSE, formatted_content |-> <<>>, final_language |-> <<>>]
IdleFormat ==
  /\ preserve_indentation = FALSE /\ min_cleanup = TRUE
  /\ content = <<>> /\ language = NoHint
  /\ first = NoOutcome /\ second = NoOutcome /\ fpc = "idle"
IdleDoc ==
  /\ markdown_content = <<>> /\ scan_text = <<>> /\ pos = 1
  /\ formatted_doc = <<>> /\ blocks = <<>> /\ dpc = "idle"
IdleLines ==
  /\ formatter = "" /\ lines = <<>> /\ alt_lines = <<>> /\ line_idx = 0
  /\ indent_level = 0 /\ render_level = 0 /\ formatted_lines = <<>>
  /\ formatted = <<>> /\ alt_formatted = <<>> /\ lpc = "idle"
IdlePreserve ==
  /\ preserver_min_cleanup = TRUE /\ preserve_content = <<>> /\ language_hint = NoHint
  /\ preserved = <<>> /\ ppc = "idle"
IdleFix == yaml_line = <<>> /\ fixed_line = <<>> /\ rule_applied = 0 /\ xpc = "idle"
IdleDownload ==
  /\ parent_lookup = "found" /\ all_pages = <<>> /\ page_no = 0
  /\ run_result = <<>> /\ wpc = "idle"

\* all sequences of 1..n elements of S
SeqsUpTo(S, n) == UNION {[1..k -> S] : k \in 1..n}

\* the concatenation of a sequence of texts
RECURSIVE Concat(_)
Concat(ws) == IF ws = <<>> THEN <<>> ELSE ws[1] \o Concat(Tail(ws))

----------------------------------------------------------------------------
(* Repair pass: clean_marker_output applied to a document, then to its own *)
(* output                                                                  *)

\* longest document, in lines
MaxDocLines == 3

\* the lines documents are made of: fences, and the shapes the six patterns
\* of _fix_yaml_line look for
RepairLines ==
  { W_fence_yaml, W_fence,
    <<" ", "-", " ", "a">>,                    \* " - a"
    <<" ", "a", ":", " ", "b">>,               \* " a: b"
    <<" ", "t", "y", "p", "e", ":", "x">>,     \* " type:x"
    <<" ","m","a","t","c","h","L","a","b","e","l","s",":">>,   \* " matchLabels:"
    <<" ","m","a","c","h","i","n","e",".","o","p","e","n","s","h","i","f","t",".","i","o","/","k",":"," ","v">>,   \* " machine.openshift.io/k: v"
    <<"-", " ", "a", ":", "b">>,               \* "- a:b"
    <<"-", " ", "-", " ", "a">>,               \* "- - a"
    <<"-", " ", "a">>,                         \* "- a"
    <<"a">> }

RepairDocs == {JoinLines(ls) : ls \in SeqsUpTo(RepairLines, MaxDocLines)}

InitRepair ==
  /\ raw_content \in RepairDocs
  /\ structured = <<>> /\ cleaned = <<>> /\ recleaned = <<>>
  /\ rpc = "start"
  /\ IdleClassify /\ IdleFormat /\ IdleDoc /\ IdleLines /\ IdlePreserve /\ IdleFix /\ IdleDownload

\* repair_document(raw_content)
CleanMarkerOutputCall ==
  /\ rpc = "start"
  /\ structured' = CleanYamlStructure(raw_content)
  /\ cleaned' = CleanMarkerOutput(raw_content)
  /\ rpc' = "once"
  /\ UNCHANGED <<raw_content, recleaned, classifyVars, formatVars, docVars, lineVars, preserveVars, fixVars, downloadVars>>

\* repair_document applied to its own output
CleanMarkerOutputAgain ==
  /\ rpc = "once"
  /\ structured' = CleanYamlStructure(cleaned)
  /\ recleaned' = CleanMarkerOutput(cleaned)
  /\ rpc' = "twice"
  /\ UNCHANGED <<raw_content, cleaned, classifyVars, formatVars, docVars, lineVars, preserveVars, fixVars, downloadVars>>

NextRepair == CleanMarkerOutputCall \/ CleanMarkerOutputAgain

SpecRepair == InitRepair /\ [][NextRepair]_vars

\* longest document of the fence scan, in lines
MaxFenceLines == 3

\* the lines the fence scan tells apart: opening fences of yaml blocks (one
\* indented), closing fences (one indented), the fence of another language,
\* lines the repair changes and a line it does not
FenceLines ==
  { W_fence_yaml,
    <<" ">> \o W_fence_yml,
    W_fence,
    <<" ">> \o W_fence,
    W_fence \o <<"s","h">>,
    <<" ", "a", ":", " ", "b">>,               \* " a: b"
    <<"-", " ", "a", ":", "b">>,               \* "- a:b"
    <<"a">> }

FenceDocs == {JoinLines(ls) : ls \in SeqsUpTo(FenceLines, MaxFenceLines)}

InitStructure ==
  /\ raw_content \in FenceDocs
  /\ structured = <<>> /\ cleaned = <<>> /\ recleaned = <<>>
  /\ rpc = "start"
  /\ IdleClassify /\ IdleFormat /\ IdleDoc /\ IdleLines /\ IdlePreserve /\ IdleFix /\ IdleDownload

SpecStructure == InitStructure /\ [][NextRepair]_vars

\* the document handed to the latest call of clean_marker_output
LatestInput == IF rpc = "twice" THEN cleaned ELSE raw_content

\* C1: repair_document is idempotent: repairing its own output changes nothing
RepairIsIdempotent == rpc = "twice" => recleaned = cleaned

----------------------------------------------------------------------------
(* Per-line repair: _fix_yaml_line called on a line                        *)

\* most leading spaces of a line
MaxLeadingSpaces == 2

\* the leading whitespace of the lines: no, one or more spaces, or a tab
LinePrefixes == {Spaces(n) : n \in 0..MaxLeadingSpaces} \cup {<<"\t">>}

\* what follows the leading whitespace: dash lines of each kind, properties of
\* the table and others, text, nothing
LineBodies ==
  { <<"-"," ","a",":"," ","b">>,   \* - a: b
    <<"-"," ","-"," ","x">>,   \* - - x
    <<"-"," ","f","o","o">>,   \* - foo
    <<"-"," ","*"," ","x">>,   \* - * x
    <<"-","x">>,   \* -x
    <<"a",":"," ","b">>,   \* a: b
    <<"n","a","m","e",":"," ","n">>,   \* name: n
    <<"m","a","t","c","h","L","a","b","e","l","s",":">>,   \* matchLabels:
    <<"m","a","c","h","i","n","e",".","o","p","e","n","s","h","i","f","t",".","i","o","/","k",":"," ","v">>,   \* machine.openshift.io/k: v
    <<"t","i","m","e","o","u","t",":"," ","8","m">>,   \* timeout: 8m
    <<"t","y","p","e",":"," ","R","e","a","d","y">>,   \* type: Ready
    <<"s","e","l","e","c","t","o","r"," ",":">>,   \* selector :
    <<"p","l","a","i","n">>,   \* plain
    <<>>,   \* 
    <<"-"," ","a",".","b",":"," ","c">>,   \* - a.b: c
    <<"-"," ","k"," ",":"," "," ","v">>,   \* - k :  v
    <<"#"," ","c">> }   \* # c

YamlLines == {prefix \o body : prefix \in LinePrefixes, body \in LineBodies}

InitFixLine ==
  /\ yaml_line \in YamlLines
  /\ fixed_line = <<>> /\ rule_applied = 0
  /\ xpc = "start"
  /\ IdleRepair /\ IdleClassify /\ IdleFormat /\ IdleDoc /\ IdleLines /\ IdlePreserve /\ IdleDownload

\* _fix_yaml_line(line)
FixYamlLineCall ==
  /\ xpc = "start"
  /\ fixed_line' = FixYamlLine(yaml_line)
  /\ rule_applied' = FixYamlRule(yaml_line)
  /\ xpc' = "done"
  /\ UNCHANGED <<yaml_line, repairVars, classifyVars, formatVars, docVars, lineVars,
                 preserveVars, downloadVars>>

NextFixLine == FixYamlLineCall

SpecFixLine == InitFixLine /\ [][NextFixLine]_vars

\* the leading whitespace of a line
LeadingText(line) == Slice(line, 1, LeadingWS(line))

\* t is a dash followed by whitespace
DashThenSpace(t) == Len(t) >= 2 /\ t[1] = "-" /\ t[2] \in WS

\* what follows the dash of such a text and the whitespace after it
AfterDash(t) == LStrip(Tail(t))

\* the longest prefix of t made of one character of IdentStart and then
\* characters of chars; <<>> if t does not start with an identifier
IdentifierOf(t, chars) ==
  IF t = <<>> \/ t[1] \notin IdentStart THEN <<>>
  ELSE Slice(t, 1, CHOOSE n \in 1..Len(t) :
                     /\ \A j \in 2..n : t[j] \in chars
                     /\ (n < Len(t) => t[n + 1] \notin chars))

\* t is an identifier, optional whitespace and a colon, and then anything
IsKeyValue(t, chars) ==
  /\ IdentifierOf(t, chars) # <<>>
  /\ StartsWith(LStrip(From(t, Len(IdentifierOf(t, chars)) + 1)), <<":">>)

\* the text after the colon of such a text
ValueOf(t, chars) == Tail(LStrip(From(t, Len(IdentifierOf(t, chars)) + 1)))

\* the characters of a property name after its first
PropertyChars == WordCh \cup {".", "/", "-"}

\* the level the property table gives for an identifier
TableLevel(identifier) ==
  CASE identifier \in {W_name, W_namespace, W_selector, W_unhealthyConditions} -> 2
    [] identifier = W_matchLabels -> 4
    [] StartsWith(identifier, W_machine) -> 6
    [] identifier \in {W_timeout, W_type} -> 4
    [] OTHER -> 2

\* the first of the five rules of the per-line repair that matches the line,
\* 0 if none does or the line is blank
FirstRule(line) ==
  CASE Strip(line) = <<>> -> 0
    [] line[1] = " " /\ DashThenSpace(Tail(line)) -> 1
    [] line[1] = " " /\ IsKeyValue(Tail(line), PropertyChars) -> 2
    [] DashThenSpace(LStrip(line)) /\ IsKeyValue(AfterDash(LStrip(line)), WordCh) -> 3
    [] DashThenSpace(LStrip(line)) /\ DashThenSpace(AfterDash(LStrip(line))) -> 4
    [] /\ DashThenSpace(LStrip(line))
       /\ AfterDash(LStrip(line)) # <<>>
       /\ ~Contains(LStrip(line), <<":">>)
       /\ AfterDash(LStrip(line))[1] \notin {"-", "*"} -> 5
    [] OTHER -> 0

\* what rule k makes of the line
RuleOutput(k, line) ==
  CASE k = 1 -> <<" ", " ", "-", " ">> \o AfterDash(Tail(line))
    [] k = 2 -> Spaces(TableLevel(IdentifierOf(Tail(line), PropertyChars))) \o Tail(line)
    [] k = 3 -> LeadingText(line) \o <<" ", " ">>
                \o IdentifierOf(AfterDash(LStrip(line)), WordCh) \o <<":", " ">>
                \o LStrip(ValueOf(AfterDash(LStrip(line)), WordCh))
    [] k = 4 -> LeadingText(line) \o <<" ", " ", "-", " ">>
                \o AfterDash(AfterDash(LStrip(line)))
    [] k = 5 -> LeadingText(line) \o Spaces(4) \o AfterDash(LStrip(line))
    [] OTHER -> line

\* C17: the per-line repair applies exactly one rule, the first that matches
\* in the order (1) one space then dash, (2) one space then identifier: value,
\* (3) dash followed by key: value, (4) double dash, (5) lone dash value
\* without colon; a line that matches none, and any blank line, is returned
\* unchanged
FirstMatchingRuleApplies ==
  xpc = "done" => fixed_line = RuleOutput(FirstRule(yaml_line), yaml_line)

\* a line that is both "one space then dash" and "dash followed by key: value"
\* was repaired by the first of the two rules only
ListItemBeforeProperty ==
  /\ xpc = "done"
  /\ yaml_line # <<>> /\ yaml_line[1] = " " /\ DashThenSpace(Tail(yaml_line))
  /\ IsKeyValue(AfterDash(LStrip(yaml_line)), WordCh)
  /\ fixed_line = <<" ", " ">> \o Tail(yaml_line)
  /\ fixed_line # RuleOutput(3, yaml_line)

----------------------------------------------------------------------------
(* Repair pass: the one-space properties of a document                     *)

\* the line is exactly one space followed by identifier: value
IsOneSpaceProperty(line) ==
  line # <<>> /\ line[1] = " " /\ IsKeyValue(Tail(line), PropertyChars)

\* the line numbers of a document that lie inside a fenced yaml block: after
\* a line opening one and before the next closing fence
InYamlBlock(doc_lines, k) ==
  \E o \in 1..(k - 1) :
    /\ IsYamlFenceOpen(doc_lines[o])
    /\ \A j \in (o + 1)..k : ~IsFenceClose(doc_lines[j])

\* the line a one-space property is to become: the table's level for its
\* identifier, then the text after the leading space
Reindented1(line) ==
  Spaces(TableLevel(IdentifierOf(Tail(line), PropertyChars))) \o Tail(line)

\* the number of positions of a sequence of lines that satisfy a test
CountLines(doc_lines, Test(_)) ==
  Cardinality({k \in DOMAIN doc_lines : Test(doc_lines[k])})

\* C18: repair_document re-indents every line that is exactly one space
\* followed by identifier: value, inside a fenced yaml block and outside, to
\* the level the property table gives for the identifier, and leaves the text
\* after the leading space as it is: the repaired document has as many lines
\* as the original, none of them a one-space property, and each re-indented
\* line occurs in it at least as often as the lines it comes from
OneSpacePropertiesReindented ==
  rpc \in {"once", "twice"} =>
    /\ Len(SplitLines(cleaned)) = Len(SplitLines(raw_content))
    /\ \A j \in 1..Len(SplitLines(cleaned)) :
         ~IsOneSpaceProperty(SplitLines(cleaned)[j])
    /\ \A k \in 1..Len(SplitLines(raw_content)) :
         IsOneSpaceProperty(SplitLines(raw_content)[k]) =>
           \E e \in {Reindented1(SplitLines(raw_content)[k])} :
             CountLines(SplitLines(cleaned), LAMBDA l : l = e)
               >= CountLines(SplitLines(raw_content),
                             LAMBDA l : IsOneSpaceProperty(l) /\ Reindented1(l) = e)

\* a document with a one-space property inside a fenced yaml block and another
\* outside it, re-indented to different levels
ReindentedInsideAndOutsideFence ==
  /\ rpc = "once"
  /\ \E i, j \in 1..Len(SplitLines(raw_content)) :
       /\ IsOneSpaceProperty(SplitLines(raw_content)[i])
       /\ IsOneSpaceProperty(SplitLines(raw_content)[j])
       /\ InYamlBlock(SplitLines(raw_content), i)
       /\ ~InYamlBlock(SplitLines(raw_content), j)
       /\ LeadingWS(SplitLines(cleaned)[i]) # LeadingWS(SplitLines(cleaned)[j])
       /\ LeadingWS(SplitLines(cleaned)[i]) > 2

----------------------------------------------------------------------------
(* Classifier: detect_language called on a fragment                        *)

\* longest fragment, in pieces
MaxFragPieces == 2

\* the pieces fragments are made of: the strong signatures and text the
\* patterns of each language find
FragPieces ==
  { <<"#","!","/","b","i","n","/","s","h">>,   \* #!/bin/sh
    <<"#","!","/","u","s","r","/","b","i","n","/","e","n","v"," ","b","a","s","h">>,   \* #!/usr/bin/env bash
    <<"N","S","=","1">>,   \* NS=1
    <<"\n","N","S","=","1">>,   \* \nNS=1
    <<"[">>,   \* [
    <<"]">>,   \* ]
    <<"{">>,   \* {
    <<"}">>,   \* }
    <<"\n","a",":"," ","|">>,   \* \na: |
    <<"\n","-"," ","x">>,   \* \n- x
    <<"e","c","h","o"," ","$","a">>,   \* echo $a
    <<"i","m","p","o","r","t"," ","(">>,   \* import (
    <<"\n","i","m","p","o","r","t"," ","x",":">>,   \* \nimport x:
    <<"\n","p","r","i","n","t","(","x",")"," ",":","="," ","1">>,   \* \nprint(x) := 1
    <<"h","e","l","l","o">>,   \* hello
    <<"D","o","n","e">>,   \* Done
    <<"s","h","o","w","c","a","s","e">>,   \* showcase
    <<" ">> }   \*  

\* fragments of three pieces in which the signatures and the scores disagree
FragSamples ==
  { <<"#","!","/","b","i","n","/","s","h","\n","a",":"," ","|","\n","-"," ","x">>,   \* #!/bin/sh\na: |\n- x
    <<"e","c","h","o"," ","$","a","\n","a",":"," ","|","\n","-"," ","x">>,   \* echo $a\na: |\n- x
    <<"i","m","p","o","r","t"," ","(","\n","i","m","p","o","r","t"," ","x",":","\n","p","r","i","n","t","(","x",")"," ",":","="," ","1">>,   \* import (\nimport x:\nprint(x) := 1
    <<"[","\n","N","S","=","1","]">>,   \* [\nNS=1]
    <<"[","e","c","h","o"," ","$","a","]">>,   \* [echo $a]
    <<" ","#","!","/","b","i","n","/","b","a","s","h","\n","l","s">> }   \*  #!/bin/bash\nls

Fragments == {Concat(ps) : ps \in SeqsUpTo(FragPieces, MaxFragPieces)} \cup FragSamples

InitClassify ==
  /\ code_content \in Fragments
  /\ language_scores = <<>> /\ detected = ""
  /\ cpc = "start"
  /\ IdleRepair /\ IdleFormat /\ IdleDoc /\ IdleLines /\ IdlePreserve /\ IdleFix /\ IdleDownload

\* detect_language returns before the scores are computed: empty content or a
\* strong signature
DetectLanguageEarly ==
  /\ cpc = "start"
  /\ LET stripped == Strip(code_content)
     IN /\ stripped = <<>> \/ StrongSignature(stripped) # "none"
        /\ detected' = DetectStripped(stripped)
  /\ cpc' = "done"
  /\ UNCHANGED <<code_content, language_scores, repairVars, formatVars, docVars, lineVars, preserveVars, fixVars, downloadVars>>

\* detect_language computes the scores and chooses from them
DetectLanguageScored ==
  /\ cpc = "start"
  /\ LET stripped == Strip(code_content)
     IN /\ stripped # <<>> /\ StrongSignature(stripped) = "none"
        /\ language_scores' = LanguageScores(stripped)
        /\ detected' = DetectFromScores(stripped, language_scores')
  /\ cpc' = "done"
  /\ UNCHANGED <<code_content, repairVars, formatVars, docVars, lineVars, preserveVars, fixVars, downloadVars>>

NextClassify == DetectLanguageEarly \/ DetectLanguageScored

SpecClassify == InitClassify /\ [][NextClassify]_vars

\* the #! lines naming a shell interpreter that fragments begin with
ShellShebangs ==
  { W_shebang_sh, W_shebang_bash,
    <<"#","!","/","u","s","r","/","b","i","n","/","e","n","v"," ","b","a","s","h">> }

\* the fragment begins with a shell shebang line
BeginsWithShellShebang(fragment) == SplitLines(fragment)[1] \in ShellShebangs

\* C5: a fragment that begins with a shell shebang line is classified as bash,
\* whatever follows the line
ShebangIsBash ==
  cpc = "done" /\ BeginsWithShellShebang(code_content) => detected = "bash"

\* the order of the languages the claim names
ClaimedOrder == <<"json", "yaml", "bash", "go", "python">>

\* C9: when the scores are computed, bash is returned if its score is at least 2
\* and no language scores higher; otherwise the first language of the order
\* json, yaml, bash, go, python with a score of at least 2 is returned, even if a
\* later language scores higher
ClassifyByScoreOrder ==
  cpc = "done" /\ language_scores # <<>> =>
    LET bash_wins ==
          /\ language_scores["bash"] >= 2
          /\ \A l \in DOMAIN language_scores : language_scores["bash"] >= language_scores[l]
    IN /\ bash_wins => detected = "bash"
       /\ ~bash_wins /\ (\E l \in DOMAIN language_scores : language_scores[l] >= 2) =>
            \E k \in 1..Len(ClaimedOrder) :
              /\ detected = ClaimedOrder[k]
              /\ language_scores[ClaimedOrder[k]] >= 2
              /\ \A j \in 1..(k-1) : language_scores[ClaimedOrder[j]] < 2

\* go is returned although python has the higher score
EarlierLanguageBeatsHigherScore ==
  /\ cpc = "done" /\ detected = "go"
  /\ language_scores # <<>>
  /\ language_scores["python"] > language_scores["go"]

\* the trimmed fragment starts with one of the known assignments
StartsWithAssignment(stripped) ==
  \E name \in {<<"V","E","R","B","O","S","E">>,
               <<"I","N","P","U","T","_","F","I","L","E">>,
               <<"N","S">>} : StartsWith(stripped, name \o <<"=">>)

\* the trimmed fragment starts with a shebang detect_language knows
StartsWithShebang(stripped) ==
  StartsWith(stripped, W_shebang_bash) \/ StartsWith(stripped, W_shebang_sh)

\* the trimmed fragment is bounded by {...} or [...]
BracketBounded(stripped) ==
  /\ stripped # <<>>
  /\ \/ Head(stripped) = "{" /\ stripped[Len(stripped)] = "}"
     \/ Head(stripped) = "[" /\ stripped[Len(stripped)] = "]"

\* C10: the strong signatures decide the result in the order shebang (bash),
\* assignment at the very start of the fragment (bash), bracket-bounded (json),
\* and the scores are not computed for a fragment that has one
StrongSignaturesDecide ==
  cpc = "done" =>
    LET stripped == Strip(code_content)
    IN /\ StartsWithShebang(stripped) => detected = "bash"
       /\ ~StartsWithShebang(stripped) /\ StartsWithAssignment(stripped) => detected = "bash"
       /\ ~StartsWithShebang(stripped) /\ ~StartsWithAssignment(stripped)
            /\ BracketBounded(stripped) => detected = "json"
       /\ (StartsWithShebang(stripped) \/ StartsWithAssignment(stripped)
             \/ BracketBounded(stripped)) => language_scores = <<>>

\* a bracket-bounded fragment is json although its patterns say bash
BoundedBeatsScores ==
  /\ cpc = "done" /\ detected = "json"
  /\ LanguageScores(Strip(code_content))["json"] < 2
  /\ LanguageScores(Strip(code_content))["bash"] >= 2

\* the keywords the claim names
ClaimedKeywords ==
  { <<"w","h","i","l","e">>, <<"c","a","s","e">>, <<"e","s","a","c">>,
    <<"d","o","n","e">>, <<"e","c","h","o">> }

\* the fragment contains one of the keywords, in any letter case and anywhere
\* (also inside a longer word)
ContainsKeyword(fragment) ==
  \E w \in ClaimedKeywords : Contains(StrLower(fragment), w)

\* C11: an empty or whitespace-only fragment is text; a fragment without a
\* strong signature in which no language reaches score 2 is bash exactly when it
\* contains one of while, case, esac, done, echo, and text otherwise; the result
\* is always one of json, yaml, bash, go, python, text
ClassifyFallback ==
  cpc = "done" =>
    /\ detected \in {"json", "yaml", "bash", "go", "python", "text"}
    /\ Strip(code_content) = <<>> => detected = "text"
    /\ (/\ language_scores # <<>>
        /\ \A l \in DOMAIN language_scores : language_scores[l] < 2) =>
         /\ ContainsKeyword(code_content) => detected = "bash"
         /\ ~ContainsKeyword(code_content) => detected = "text"

\* a fragment that only holds a keyword in capitals inside a yaml-looking
\* line is bash by the fallback
FallbackChoosesBash ==
  /\ cpc = "done" /\ detected = "bash"
  /\ language_scores # <<>>
  /\ \A l \in DOMAIN language_scores : language_scores[l] < 2
  /\ language_scores["yaml"] = 1
  /\ ~ \E w \in ClaimedKeywords : Contains(code_content, w)

----------------------------------------------------------------------------
(* Fence scan of the repair pass: what clean_yaml_structure emits, line by *)
(* line                                                                    *)

\* the line, once trimmed, starts with the opening fence of a yaml or yml block
OpensYamlBlock(line) ==
  \E tag \in {<<"y","a","m","l">>, <<"y","m","l">>} :
    /\ Len(Strip(line)) >= 3 + Len(tag)
    /\ SubSeq(Strip(line), 1, 3 + Len(tag)) = <<BT, BT, BT>> \o tag

\* the line, once trimmed, is a fence and nothing else
IsBareFence(line) == Strip(line) = <<BT, BT, BT>>

\* the in-block flag when line k is read: a yaml block was opened before it
\* and no bare fence has been read since
FlagAt(doc_lines, k) ==
  \E o \in 1..(k - 1) :
    /\ OpensYamlBlock(doc_lines[o])
    /\ \A j \in (o + 1)..(k - 1) : ~IsBareFence(doc_lines[j])

\* line k is buffered: read with the flag up and no fence itself
IsBuffered(doc_lines, k) ==
  FlagAt(doc_lines, k) /\ ~OpensYamlBlock(doc_lines[k]) /\ ~IsBareFence(doc_lines[k])

\* the line at which buffered line k is emitted: the next bare fence, or one
\* past the end of input
FlushedAt(doc_lines, k) ==
  IF \E c \in (k + 1)..Len(doc_lines) : IsBareFence(doc_lines[c])
  THEN CHOOSE c \in (k + 1)..Len(doc_lines) :
         IsBareFence(doc_lines[c]) /\ \A j \in (k + 1)..(c - 1) : ~IsBareFence(doc_lines[j])
  ELSE Len(doc_lines) + 1

\* the place of line k in the output: lines not buffered are emitted when
\* read, buffered lines in reading order just before the line that flushes them
EmittedAt(doc_lines, k) ==
  IF IsBuffered(doc_lines, k)
  THEN Cardinality({j \in DOMAIN doc_lines :
                      IF IsBuffered(doc_lines, j)
                      THEN \/ FlushedAt(doc_lines, j) < FlushedAt(doc_lines, k)
                           \/ FlushedAt(doc_lines, j) = FlushedAt(doc_lines, k) /\ j <= k
                      ELSE j < FlushedAt(doc_lines, k)})
  ELSE Cardinality({j \in DOMAIN doc_lines :
                      IF IsBuffered(doc_lines, j)
                      THEN FlushedAt(doc_lines, j) <= k
                      ELSE j <= k})

\* C21: the fenced-yaml repair scans lines with one in-block flag: a yaml or
\* yml fence opens a block, the lines after it are buffered until a bare fence
\* or the end of input, and are then emitted repaired before the closing
\* fence; fence lines and lines outside a yaml block are emitted unchanged
FenceScanBuffersAndRepairs ==
  rpc \in {"once", "twice"} /\ LatestInput # <<>> =>
    /\ Len(SplitLines(structured)) = Len(SplitLines(LatestInput))
    /\ \A k \in 1..Len(SplitLines(LatestInput)) :
         SplitLines(structured)[EmittedAt(SplitLines(LatestInput), k)]
           = IF IsBuffered(SplitLines(LatestInput), k)
             THEN FixYamlLine(SplitLines(LatestInput)[k])
             ELSE SplitLines(LatestInput)[k]

\* a line was repaired inside a yaml block and the same line left alone outside
\* it
RepairedInYamlBlockOnly ==
  /\ rpc = "once"
  /\ \E i, j \in 1..Len(SplitLines(raw_content)) :
       /\ SplitLines(raw_content)[i] = SplitLines(raw_content)[j]
       /\ IsBuffered(SplitLines(raw_content), i)
       /\ ~IsBuffered(SplitLines(raw_content), j)
       /\ FixYamlLine(SplitLines(raw_content)[i]) # SplitLines(raw_content)[i]
       /\ SplitLines(structured)[i] = FixYamlLine(SplitLines(raw_content)[i])
       /\ SplitLines(structured)[j] = SplitLines(raw_content)[j]

\* C27: clean_yaml_structure emits as many lines as it reads and keeps them in
\* their order: the k-th line of the result is the k-th line of the input, as
\* it was or repaired, also when a yaml fence is not closed or a second yaml
\* fence is opened before the first block is closed
FenceScanKeepsLineOrder ==
  rpc \in {"once", "twice"} /\ LatestInput # <<>> =>
    /\ Len(SplitLines(structured)) = Len(SplitLines(LatestInput))
    /\ \A k \in 1..Len(SplitLines(LatestInput)) :
         \/ SplitLines(structured)[k] = SplitLines(LatestInput)[k]
         \/ SplitLines(structured)[k] = FixYamlLine(SplitLines(LatestInput)[k])

----------------------------------------------------------------------------
(* Block formatter: format_code_block called on a block, then on its own   *)
(* output                                                                  *)

\* longest block content, in pieces
MaxBlockPieces == 2

\* the pieces block contents are made of: parts of JSON texts, shell and yaml
\* lines and plain text
BlockPieces ==
  { <<"{","\"","b","\"",":","1",",">>,   \* {\"b\":1,
    <<"\"","a","\"",":","2","}">>,   \* \"a\":2}
    <<"[">>,   \* [
    <<"]">>,   \* ]
    <<"\"","e","c","h","o"," ","$","a","\"">>,   \* \"echo $a\"
    <<"e","c","h","o"," ","$","a","\n">>,   \* echo $a\n
    <<" ","a",":"," ","b","\n">> }   \*  a: b\n

\* JSON nested deeper than the decoder's recursion limit, and code of each language
BlockSamples ==
  { <<"[","[","[","1","]","]","]">>,   \* [[[1]]]
    <<"{","\"","a","\"",":","[","1","]","}">>,   \* {\"a\":[1]}
    <<"{","b","a","d","}">>,   \* {bad}
    <<"f","u","n","c"," ","f","(",")"," ","{","\n","x"," ",":","="," ","1","\n","}">>,   \* func f() {\nx := 1\n}
    <<"d","e","f"," ","f","(",")",":","\n","p","r","i","n","t","(","x",")">>,   \* def f():\nprint(x)
    <<"i","f"," ","x",";"," ","t","h","e","n","\n","l","s","\n","f","i">>,   \* if x; then\nls\nfi
    <<"p","a","c","k","a","g","e"," ","a","\n","f","u","n","c"," ","f","(",")"," ","{","\n","}">>,   \* package a\nfunc f() {\n}
    <<"a",":","\n"," "," ","-"," ","x",":"," ","1","\n">>,   \* a:\n  - x: 1\n
    <<" "," ","x"," "," ","\n","\n"," ","y">>,   \*   x  \n\n y
    <<"h","e","l","l","o">> }   \* hello

BlockContents == {Concat(ps) : ps \in SeqsUpTo(BlockPieces, MaxBlockPieces)} \cup BlockSamples

\* the language hints: none, the five recognized tags and an unrecognized one
Hints == {NoHint} \cup RecognizedTags \cup {LangChars("text")}

\* CodeFormatter(), CodeFormatter(preserve_indentation=True) and
\* CodeFormatter(preserve_indentation=True, min_cleanup=False)
InitFormat ==
  /\ preserve_indentation \in BOOLEAN
  /\ min_cleanup \in {TRUE} \cup (IF preserve_indentation THEN {FALSE} ELSE {})
  /\ content \in BlockContents
  /\ language \in Hints
  /\ first = NoOutcome /\ second = NoOutcome
  /\ fpc = "start"
  /\ IdleRepair /\ IdleClassify /\ IdleDoc /\ IdleLines /\ IdlePreserve /\ IdleFix /\ IdleDownload

\* format_code_block(content, language)
FormatCodeBlockCall ==
  /\ fpc = "start"
  /\ first' = FormatCodeBlock(content, language, preserve_indentation, min_cleanup)
  /\ fpc' = "once"
  /\ UNCHANGED <<preserve_indentation, min_cleanup, content, language, second,
                 repairVars, classifyVars, docVars, lineVars, preserveVars, fixVars, downloadVars>>

\* format_code_block applied to the content the first call returned
FormatCodeBlockAgain ==
  /\ fpc = "once"
  /\ ~first.raised
  /\ second' = FormatCodeBlock(first.formatted_content, language,
                               preserve_indentation, min_cleanup)
  /\ fpc' = "twice"
  /\ UNCHANGED <<preserve_indentation, min_cleanup, content, language, first,
                 repairVars, classifyVars, docVars, lineVars, preserveVars, fixVars, downloadVars>>

NextFormat == FormatCodeBlockCall \/ FormatCodeBlockAgain

SpecFormat == InitFormat /\ [][NextFormat]_vars

\* the two texts are valid JSON and denote the same value
SameJsonValue(s, t) ==
  /\ JsonLoads(s).ok /\ JsonLoads(t).ok
  /\ JsonDumps(JsonLoads(s).v) = JsonDumps(JsonLoads(t).v)

\* C2: without a hint, a valid JSON text (object, array or scalar) is returned
\* as text that parses to the same value, rendered with sorted keys and 2-space
\* indentation
FormatKeepsJsonValue ==
  fpc # "start" /\ language = NoHint /\ JsonLoads(content).ok =>
    /\ ~first.raised
    /\ SameJsonValue(first.formatted_content, content)
    /\ first.formatted_content = JsonDumps(JsonLoads(content).v)

\* C3: on a valid JSON text, without a hint, the second application returns the
\* content and the language the first one returned
FormatIsIdempotentOnJson ==
  /\ fpc # "start" /\ language = NoHint /\ JsonLoads(content).ok => ~first.raised
  /\ fpc = "twice" /\ language = NoHint /\ JsonLoads(content).ok =>
       /\ ~second.raised
       /\ second.formatted_content = first.formatted_content
       /\ second.final_language = first.final_language

\* a valid JSON text the first application rewrote has been formatted twice
ReformattedJsonTwice ==
  /\ fpc = "twice" /\ language = NoHint /\ JsonLoads(content).ok
  /\ first.formatted_content # content
  /\ first.final_language = LangChars("json")

\* the language whose formatter the call resorts to: the hint if it is one of
\* the five, the classifier's answer otherwise
ResolvedLanguage ==
  IF language \in RecognizedTags THEN language ELSE LangChars(DetectLanguage(content))

\* no formatter applies to the content, or the one that applies fails on it
NoFormatterSucceeds ==
  \/ ResolvedLanguage = LangChars("text")
  \/ ResolvedLanguage = LangChars("json") /\ ~JsonLoads(content).ok

\* C4: format_block never raises, whatever the content and the hint; when no
\* formatter applies or the formatter fails, it returns the content unchanged
\* with the language "text"
FormatNeverRaises ==
  fpc # "start" =>
    /\ ~first.raised
    /\ NoFormatterSucceeds =>
         /\ first.formatted_content = content
         /\ first.final_language = LangChars("text")

\* the formatter of a language applied to a content
FormatterOf(l, block) ==
  CASE l = "yaml" -> FormatYaml(block)
    [] l = "bash" -> FormatBash(block)
    [] l = "go" -> FormatGo(block)
    [] l = "python" -> FormatPython(block)
    [] OTHER -> block

\* C8: with the hint "json" and a content that is not valid JSON, the content is
\* formatted by the formatter of the language the classifier returns for it
\* (yaml, bash, go, python) and that language is returned; if the classifier
\* says json the content is returned unchanged
JsonFallbackUsesDetectedFormatter ==
  fpc # "start" /\ language = LangChars("json") /\ ~JsonLoads(content).ok =>
    /\ ~first.raised
    /\ first.final_language = LangChars(DetectLanguage(content))
    /\ first.formatted_content = FormatterOf(DetectLanguage(content), content)

----------------------------------------------------------------------------
(* Block formatter, standardized and preservation mode side by side:       *)
(* format_code_block on contents of a few lines                            *)

\* most lines of such a content
MaxModeLines == 2

\* the lines of those contents: text the classifier cannot classify (with
\* trailing whitespace, with leading whitespace), yaml, shell and JSON lines
ModeLines ==
  { <<"k","i","n","d",":"," ","x"," ">>,   \* kind: x 
    <<" "," ","-"," ","x">>,   \*   - x
    <<"e","c","h","o"," ","$","a">>,   \* echo $a
    <<"{">>,   \* {
    <<"}">> }   \* }

ModeContents == {JoinLines(ls) : ls \in SeqsUpTo(ModeLines, MaxModeLines)}

\* no hint, two recognized tags and an unrecognized one
ModeHints == {NoHint, LangChars("yaml"), LangChars("python"), LangChars("text")}

InitBlockModes ==
  /\ preserve_indentation \in BOOLEAN
  /\ min_cleanup \in {TRUE} \cup (IF preserve_indentation THEN {FALSE} ELSE {})
  /\ content \in ModeContents
  /\ language \in ModeHints
  /\ first = NoOutcome /\ second = NoOutcome
  /\ fpc = "start"
  /\ IdleRepair /\ IdleClassify /\ IdleDoc /\ IdleLines /\ IdlePreserve /\ IdleFix /\ IdleDownload

SpecBlockModes == InitBlockModes /\ [][NextFormat]_vars

\* the block's language as format_block resolves it before choosing a mode:
\* the hint, or the classifier's result when there is no hint
BlockLanguage == IF language # NoHint THEN language ELSE LangChars(DetectLanguage(content))

\* what the structural formatter of a recognized language l returns for a
\* content it formats without failing
StructuralOutput(l, block) ==
  IF l = LangChars("json") THEN JsonDumps(JsonLoads(block).v)
  ELSE FormatterOf(CHOOSE n \in Languages : LangChars(n) = l, block)

\* C16: with preservation mode on, a block whose language (the hint, or the
\* classifier's result without a hint) is one of json, yaml, bash, go, python
\* gets the result of standardized mode, which for valid content is the
\* structural formatter's output; the preservation formatter is used exactly
\* for the blocks whose language is none of the five
PreservationOnlyForUnrecognized ==
  fpc \in {"once", "twice"} /\ preserve_indentation =>
    /\ BlockLanguage \in RecognizedTags =>
         /\ first = FormatCodeBlock(content, language, FALSE, min_cleanup)
         /\ (BlockLanguage # LangChars("json") \/ JsonLoads(content).ok) =>
              /\ ~first.raised
              /\ first.formatted_content = StructuralOutput(BlockLanguage, content)
              /\ first.final_language = BlockLanguage
    /\ BlockLanguage \notin RecognizedTags =>
         /\ ~first.raised
         /\ <<first.formatted_content, first.final_language>>
              = PreserveIndentation(content, language, min_cleanup)

\* in preservation mode a yaml block was reformatted where the preservation
\* formatter would have kept its layout
StructuralFormatterInPreservationMode ==
  /\ fpc = "once" /\ preserve_indentation
  /\ language = NoHint /\ BlockLanguage = LangChars("yaml")
  /\ first.formatted_content = FormatYaml(content)
  /\ first.formatted_content # PreserveIndentation(content, language, min_cleanup)[1]

\* the classifier cannot classify the block's content and there is no hint
Unclassifiable == language = NoHint /\ DetectLanguage(content) = "text"

----------------------------------------------------------------------------
(* Orchestrator: _format_code_blocks called on a document; re.sub calls    *)
(* format_code_block_match once per fenced block, left to right            *)

\* longest document, in segments
MaxDocSegments == 2

\* the segments documents are made of: fenced blocks (with a recognized tag, an
\* unrecognized one, one that is not a word, none; one whose formatting raises)
\* and lines outside fences
DocSegments ==
  { <<"~","~","~","y","a","m","l","\n"," ","a",":"," ","b","\n","~","~","~","\n">>,   \* ~~~yaml\n a: b\n~~~\n
    <<"~","~","~","t","e","x","t","\n","[","[","[","1","]","]","]","\n","~","~","~","\n">>,   \* ~~~text\n[[[1]]]\n~~~\n
    <<"~","~","~","\n","{","\"","b","\"",":","1","}","\n","~","~","~","\n">>,   \* ~~~\n{\"b\":1}\n~~~\n
    <<"~","~","~","j","s","o","n","\n","{","b","a","d","}","\n","~","~","~","\n">>,   \* ~~~json\n{bad}\n~~~\n
    <<"~","~","~","j","s","\n","h","e","l","l","o","\n","~","~","~","\n">>,   \* ~~~js\nhello\n~~~\n
    <<"~","~","~","c","+","+","\n","x","\n","~","~","~","\n","p","\n">>,   \* ~~~c++\nx\n~~~\np\n
    <<" ","a",":"," ","b","\n">>,   \*  a: b\n
    <<"p","\n">> }   \* p\n

Documents == {Concat(ss) : ss \in SeqsUpTo(DocSegments, MaxDocSegments)}

InitDoc ==
  /\ markdown_content \in Documents
  /\ scan_text = <<>> /\ pos = 1 /\ formatted_doc = <<>> /\ blocks = <<>>
  /\ dpc = "start"
  /\ IdleRepair /\ IdleClassify /\ IdleFormat /\ IdleLines /\ IdlePreserve /\ IdleFix /\ IdleDownload

\* _format_code_blocks is entered: re.sub is handed markdown_content as it is
FormatCodeBlocksEnter ==
  /\ dpc = "start"
  /\ scan_text' = markdown_content
  /\ dpc' = "scan"
  /\ UNCHANGED <<markdown_content, pos, formatted_doc, blocks,
                 repairVars, classifyVars, formatVars, lineVars, preserveVars, fixVars, downloadVars>>

\* re.sub finds the next fenced block and replaces it by what
\* format_code_block_match returns
FormatCodeBlockMatchCall ==
  /\ dpc \in {"scan", "rescan"}
  /\ HasMatchFrom(scan_text, pos)
  /\ \E m \in {NextMatchFrom(scan_text, pos)} :
       \E r \in {FormatCodeBlockMatch(scan_text, m)} :
         /\ formatted_doc' = formatted_doc \o Slice(scan_text, pos, m.b - 1) \o r.text
         /\ pos' = m.e
         /\ blocks' = Append(blocks, [start |-> m.b,
                                      original |-> Slice(scan_text, m.b, m.e - 1),
                                      hint |-> MatchLanguage(scan_text, m),
                                      body |-> Group(scan_text, m, 2),
                                      raised |-> r.raised,
                                      text |-> r.text])
  /\ UNCHANGED <<markdown_content, scan_text, dpc, repairVars, classifyVars, formatVars, lineVars, preserveVars, fixVars, downloadVars>>

\* re.sub finds no further block: the rest of the text is copied and the
\* document returned
FormatCodeBlocksReturn ==
  /\ dpc \in {"scan", "rescan"}
  /\ ~HasMatchFrom(scan_text, pos)
  /\ formatted_doc' = formatted_doc \o From(scan_text, pos)
  /\ pos' = Len(scan_text) + 1
  /\ dpc' = IF dpc = "scan" THEN "done" ELSE "redone"
  /\ UNCHANGED <<markdown_content, scan_text, blocks, repairVars, classifyVars, formatVars, lineVars, preserveVars, fixVars, downloadVars>>

\* _format_code_blocks is called again, on the document it returned
FormatCodeBlocksAgain ==
  /\ dpc = "done"
  /\ markdown_content' = formatted_doc
  /\ scan_text' = formatted_doc
  /\ pos' = 1 /\ formatted_doc' = <<>> /\ blocks' = <<>>
  /\ dpc' = "rescan"
  /\ UNCHANGED <<repairVars, classifyVars, formatVars, lineVars, preserveVars, fixVars,
                 downloadVars>>

NextDoc ==
  \/ FormatCodeBlocksEnter \/ FormatCodeBlockMatchCall \/ FormatCodeBlocksReturn
  \/ FormatCodeBlocksAgain

SpecDoc == InitDoc /\ [][NextDoc]_vars

\* the step-wise substitution returns what re.sub returns
StepwiseIsSub == dpc \in {"done", "redone"} => formatted_doc = FormatCodeBlocks(markdown_content)

\* C6: the text handed to the fenced-block scan has been through
\* repair_document: the Repair Pass runs first, the scan after it
ScanTextIsRepaired ==
  dpc \in {"scan", "done", "rescan", "redone"} => scan_text = CleanMarkerOutput(markdown_content)

\* the number of fenced blocks of a text from position p on
RECURSIVE CountBlocks(_, _)
CountBlocks(s, p) ==
  IF ~HasMatchFrom(s, p) THEN 0 ELSE 1 + CountBlocks(s, NextMatchFrom(s, p).e)

\* C7: a fenced block whose formatting raises is replaced by its original text
\* (fences, tag and content), every other block is replaced by its formatted
\* rendering, and the call returns with every block of the document processed
BlockFailureIsContained ==
  /\ \A i \in DOMAIN blocks :
       \E r \in {FormatCodeBlock(blocks[i].body, blocks[i].hint, FALSE, TRUE)} :
          /\ blocks[i].raised = r.raised
          /\ r.raised => blocks[i].text = blocks[i].original
          /\ ~r.raised =>
               blocks[i].text = W_fence \o r.final_language \o <<"\n">>
                                  \o r.formatted_content \o <<"\n">> \o W_fence
  /\ dpc \in {"done", "redone"} => Len(blocks) = CountBlocks(scan_text, 1)

\* a block raised, was put back as it was, and a later block was still formatted
LaterBlockFormattedAfterFailure ==
  /\ dpc = "done"
  /\ \E i, j \in DOMAIN blocks :
       /\ i < j
       /\ blocks[i].raised /\ blocks[i].text = blocks[i].original
       /\ ~blocks[j].raised /\ blocks[j].text # blocks[j].original

FenceAt(s, i) == i + 2 <= Len(s) /\ Slice(s, i, i + 2) = W_fence

\* the position of the first fence at or after p, 0 when there is none
FirstFenceFrom(s, p) ==
  IF \E i \in p..Len(s) : FenceAt(s, i)
  THEN CHOOSE i \in p..Len(s) : FenceAt(s, i) /\ \A j \in p..(i - 1) : ~FenceAt(s, j)
  ELSE 0

\* the fenced regions of a text, fences paired in document order: a fence
\* opens a region, whatever follows it on its line, and the next fence closes
\* it; b is the first position of the region and e the one after its last
RECURSIVE FencedRegions(_, _)
FencedRegions(s, p) ==
  IF FirstFenceFrom(s, p) = 0 THEN {}
  ELSE IF FirstFenceFrom(s, FirstFenceFrom(s, p) + 3) = 0 THEN {}
  ELSE {[b |-> FirstFenceFrom(s, p),
         e |-> FirstFenceFrom(s, FirstFenceFrom(s, p) + 3) + 3]}
         \cup FencedRegions(s, FirstFenceFrom(s, FirstFenceFrom(s, p) + 3) + 3)

\* the text with the blocks from the k-th on replaced and all else copied
RECURSIVE Reassembled(_, _, _, _)
Reassembled(s, bs, k, p) ==
  IF k > Len(bs) THEN From(s, p)
  ELSE Slice(s, p, bs[k].start - 1) \o bs[k].text
         \o Reassembled(s, bs, k + 1, bs[k].start + Len(bs[k].original))

\* C20: _format_code_blocks changes only text between an opening fence and its
\* own closing fence: every block handed to the formatter is a fenced region
\* of the document, fences paired in document order whatever the tag of the
\* opening fence, and the text outside the blocks is copied unchanged
OnlyFencedRegionsFormatted ==
  /\ \A i \in DOMAIN blocks :
       \E region \in FencedRegions(scan_text, 1) :
         /\ region.b = blocks[i].start
         /\ region.e = blocks[i].start + Len(blocks[i].original)
  /\ dpc \in {"done", "redone"} => formatted_doc = Reassembled(scan_text, blocks, 1, 1)

\* blocks with a word for a tag or none were handed over as the regions they are
WordTaggedRegionsFormatted ==
  /\ dpc = "done" /\ Len(blocks) = 2
  /\ \A i \in DOMAIN blocks :
       [b |-> blocks[i].start, e |-> blocks[i].start + Len(blocks[i].original)]
         \in FencedRegions(scan_text, 1)

\* C29: _format_code_blocks applied to its own output returns it unchanged:
\* no block's content or tag changes and no line is added between a block's
\* content and its closing fence
FormatCodeBlocksIsIdempotent ==
  dpc = "redone" => formatted_doc = markdown_content

----------------------------------------------------------------------------
(* Line-oriented formatters: the loop of format_yaml, format_bash,         *)
(* format_go or format_python over the lines of a content, and the same    *)
(* formatter called on a second content that differs from the first only   *)
(* in the leading whitespace of its lines                                  *)

\* most lines of a content
MaxCodeLines == 2

\* the lines contents are made of: openers and closers of each language, a
\* comment, yaml lines with odd and even indentation, a whitespace-only line
CodeLines ==
  { <<"i","f"," ","x",";"," ","t","h","e","n">>,   \* if x; then
    <<"f","i">>,   \* fi
    <<" ","d","o","n","e">>,   \*  done
    <<"}">>,   \* }
    <<"f","u","n","c"," ","f","(",")"," ","{">>,   \* func f() {
    <<"e","l","s","e",":">>,   \* else:
    <<")">>,   \* )
    <<" "," "," ","a",":"," ","b">>,   \*    a: b
    <<" ","-"," ","x">>,   \*  - x
    <<"#"," ","c">>,   \* # c
    <<" "," ","#"," ","c">>,   \*   # c
    <<"f","m","t",".","P","r","i","n","t","l","n","(">>,   \* fmt.Println(
    <<" "," ">> }   \*   

\* the leading whitespace the lines of the second content are given
AltIndents == {<<>>, <<" ">>, <<" ", " ", "\t">>}

LineFormatters == {"yaml", "bash", "go", "python"}

\* line with its leading whitespace replaced by ws
Reindented(line, ws) == ws \o LStrip(line)

InitLines ==
  /\ formatter \in LineFormatters
  /\ lines \in SeqsUpTo(CodeLines, MaxCodeLines)
  /\ alt_lines \in {[k \in DOMAIN lines |-> Reindented(lines[k], ws)] : ws \in AltIndents}
  /\ line_idx = 0 /\ indent_level = 0 /\ render_level = 0 /\ formatted_lines = <<>>
  /\ formatted = <<>> /\ alt_formatted = <<>>
  /\ lpc = "loop"
  /\ IdleRepair /\ IdleClassify /\ IdleFormat /\ IdleDoc /\ IdlePreserve /\ IdleFix /\ IdleDownload

\* whether the loop of the bash, go or python formatter renders the line at a
\* level of its own (it is neither empty nor a comment)
IsCodeLine(lang, stripped) ==
  /\ stripped # <<>>
  /\ ~StartsWith(stripped, IF lang = "go" THEN <<"/", "/">> ELSE <<"#">>)

\* one iteration of the loop of format_yaml
FormatYamlIteration ==
  /\ lpc = "loop" /\ formatter = "yaml" /\ line_idx < Len(lines)
  /\ \E line \in {lines[line_idx + 1]} :
       /\ formatted_lines' = Append(formatted_lines, FormatYamlLine(line))
       /\ IF IsCodeLine("yaml", Strip(line))
          THEN /\ indent_level' = LeadingWS(line)
               /\ render_level' = (LeadingWS(line) \div 2) * 2
          ELSE UNCHANGED <<indent_level, render_level>>
  /\ line_idx' = line_idx + 1
  /\ UNCHANGED <<formatter, lines, alt_lines, formatted, alt_formatted, lpc,
                 repairVars, classifyVars, formatVars, docVars, preserveVars, fixVars, downloadVars>>

\* one iteration of the loop of format_bash
FormatBashIteration ==
  /\ lpc = "loop" /\ formatter = "bash" /\ line_idx < Len(lines)
  /\ \E line \in {lines[line_idx + 1]} :
       \E st \in {BashStep([indent_level |-> indent_level,
                            formatted_lines |-> formatted_lines], line)} :
          /\ indent_level' = st.indent_level
          /\ formatted_lines' = st.formatted_lines
          /\ render_level' =
               IF IsCodeLine("bash", Strip(line))
               THEN BashTempIndent(Strip(line), indent_level)
               ELSE IF Strip(line) # <<>> THEN indent_level ELSE render_level
  /\ line_idx' = line_idx + 1
  /\ UNCHANGED <<formatter, lines, alt_lines, formatted, alt_formatted, lpc,
                 repairVars, classifyVars, formatVars, docVars, preserveVars, fixVars, downloadVars>>

\* one iteration of the loop of format_go
FormatGoIteration ==
  /\ lpc = "loop" /\ formatter = "go" /\ line_idx < Len(lines)
  /\ \E line \in {lines[line_idx + 1]} :
       \E st \in {GoStep([indent_level |-> indent_level,
                          formatted_lines |-> formatted_lines], line)} :
          /\ indent_level' = st.indent_level
          /\ formatted_lines' = st.formatted_lines
          /\ render_level' =
               IF IsCodeLine("go", Strip(line))
               THEN GoLevel(Strip(line), indent_level)
               ELSE IF Strip(line) # <<>> THEN indent_level ELSE render_level
  /\ line_idx' = line_idx + 1
  /\ UNCHANGED <<formatter, lines, alt_lines, formatted, alt_formatted, lpc,
                 repairVars, classifyVars, formatVars, docVars, preserveVars, fixVars, downloadVars>>

\* one iteration of the loop of format_python
FormatPythonIteration ==
  /\ lpc = "loop" /\ formatter = "python" /\ line_idx < Len(lines)
  /\ \E line \in {lines[line_idx + 1]} :
       \E st \in {PythonStep([indent_level |-> indent_level,
                              formatted_lines |-> formatted_lines], line)} :
          /\ indent_level' = st.indent_level
          /\ formatted_lines' = st.formatted_lines
          /\ render_level' =
               IF IsCodeLine("python", Strip(line))
               THEN PythonLevel(Strip(line), indent_level)
               ELSE IF Strip(line) # <<>> THEN indent_level ELSE render_level
  /\ line_idx' = line_idx + 1
  /\ UNCHANGED <<formatter, lines, alt_lines, formatted, alt_formatted, lpc,
                 repairVars, classifyVars, formatVars, docVars, preserveVars, fixVars, downloadVars>>

\* the loop is over: return "\n".join(formatted_lines)
FormatterReturn ==
  /\ lpc = "loop" /\ line_idx = Len(lines)
  /\ formatted' = JoinLines(formatted_lines)
  /\ lpc' = "returned"
  /\ UNCHANGED <<formatter, lines, alt_lines, line_idx, indent_level, render_level,
                 formatted_lines, alt_formatted,
                 repairVars, classifyVars, formatVars, docVars, preserveVars, fixVars, downloadVars>>

\* the formatter named lang called on content
RunFormatter(lang, c) ==
  CASE lang = "yaml" -> FormatYaml(c)
    [] lang = "bash" -> FormatBash(c)
    [] lang = "go" -> FormatGo(c)
    [] lang = "python" -> FormatPython(c)

\* the same formatter is called on the second content
FormatterCallAlt ==
  /\ lpc = "returned"
  /\ alt_formatted' = RunFormatter(formatter, JoinLines(alt_lines))
  /\ lpc' = "compared"
  /\ UNCHANGED <<formatter, lines, alt_lines, line_idx, indent_level, render_level,
                 formatted_lines, formatted,
                 repairVars, classifyVars, formatVars, docVars, preserveVars, fixVars, downloadVars>>

NextLines ==
  \/ FormatYamlIteration \/ FormatBashIteration \/ FormatGoIteration
  \/ FormatPythonIteration \/ FormatterReturn \/ FormatterCallAlt

SpecLines == InitLines /\ [][NextLines]_vars

\* the loop taken line by line returns what the formatter returns
LoopIsFormatter ==
  lpc \in {"returned", "compared"} => formatted = RunFormatter(formatter, JoinLines(lines))

\* C13: in the bash, go and python formatters the nesting level is a
\* non-negative integer after every line, and so is the level each line is
\* rendered at, also when closing keywords outnumber openers
NestingLevelNeverNegative ==
  formatter \in {"bash", "go", "python"} =>
    /\ indent_level \in Nat
    /\ render_level \in Nat

\* two closers have been consumed with no opener before them, and a line
\* is rendered at level 0
ClosersOutnumberOpeners ==
  /\ formatter \in {"bash", "go", "python"}
  /\ line_idx = 2
  /\ \A k \in 1..2 : Strip(lines[k]) \in {<<"f","i">>, <<"d","o","n","e">>, <<"}">>, <<")">>}
  /\ indent_level = 0 /\ render_level = 0

\* leading whitespace of a line counted as format_yaml normalizes it: rounded
\* down to an even number
EvenIndent(line) == (LeadingWS(line) \div 2) * 2

\* the two contents give the lines format_yaml indents the same even indent
SameEvenIndents ==
  \A k \in DOMAIN lines :
    IsCodeLine("yaml", Strip(lines[k])) => EvenIndent(lines[k]) = EvenIndent(alt_lines[k])

----------------------------------------------------------------------------
(* Preservation formatter: preserve_indentation called on a content        *)

\* most lines of a content handed to the preservation formatter
MaxPreserveLines == 2

\* the lines of those contents: with and without leading and trailing
\* whitespace, whitespace-only and empty
PreserveLines ==
  { <<"a">>,   \* a
    <<" "," ","b"," "," ">>,   \*   b  
    <<" ","-"," ","x","\t">>,   \*  - x\t
    <<" "," "," ">>,   \*    
    <<>>,   \* 
    <<"\t","c",":">>,   \* \tc:
    <<" ","d"," ","\r">>,   \*  d 
    <<"e","c","h","o"," ","$","a"," ">>,   \* echo $a 
    <<"{">> }   \* {

PreserveContents == {JoinLines(ls) : ls \in SeqsUpTo(PreserveLines, MaxPreserveLines)}

\* IndentationPreserver() and IndentationPreserver(min_cleanup=False), and a
\* content with or without a hint
InitPreserve ==
  /\ preserver_min_cleanup \in BOOLEAN
  /\ preserve_content \in PreserveContents
  /\ language_hint \in {NoHint, LangChars("text")}
  /\ preserved = <<>>
  /\ ppc = "start"
  /\ IdleRepair /\ IdleClassify /\ IdleFormat /\ IdleDoc /\ IdleLines /\ IdleFix /\ IdleDownload

\* preserve_indentation(content, language_hint)
PreserveIndentationCall ==
  /\ ppc = "start"
  /\ preserved' = PreserveIndentation(preserve_content, language_hint, preserver_min_cleanup)
  /\ ppc' = "done"
  /\ UNCHANGED <<preserver_min_cleanup, preserve_content, language_hint,
                 repairVars, classifyVars, formatVars, docVars, lineVars, fixVars, downloadVars>>

NextPreserve == PreserveIndentationCall

SpecPreserve == InitPreserve /\ [][NextPreserve]_vars

\* line without its trailing whitespace; a whitespace-only line becomes empty
WithoutTrailingWS(line) == Slice(line, 1, LastNonWS(line))

\* C15: with minimal cleanup on, the preservation formatter returns as many
\* lines as the content has, each equal to the content's line with only its
\* trailing whitespace removed (a whitespace-only line becomes empty) and its
\* leading whitespace kept
PreservationKeepsLines ==
  ppc = "done" /\ preserver_min_cleanup =>
    /\ Len(SplitLines(preserved[1])) = Len(SplitLines(preserve_content))
    /\ \A k \in 1..Len(SplitLines(preserve_content)) :
         SplitLines(preserved[1])[k] = WithoutTrailingWS(SplitLines(preserve_content)[k])

----------------------------------------------------------------------------
(* Bash formatter: the loop of format_bash over the lines of a script      *)

\* most lines of a script put together freely
MaxBashLines == 2
\* most elif branches of an if construct
MaxElifs == 1

\* the lines scripts are made of: the keywords of the two lists of
\* format_bash, openers, ordinary commands, a comment and a blank line
BashLines ==
  { <<"i","f"," ","x",";"," ","t","h","e","n">>,   \* if x; then
    <<"e","l","i","f"," ","y",";"," ","t","h","e","n">>,   \* elif y; then
    <<"e","l","s","e">>,   \* else
    <<"f","i">>,   \* fi
    <<"f","o","r"," ","i",";"," ","d","o">>,   \* for i; do
    <<"d","o","n","e">>,   \* done
    <<"d","o","n","e"," ","<"," ","f">>,   \* done < f
    <<"f","(",")"," ","{">>,   \* f() {
    <<"}">>,   \* }
    <<"c","a","s","e"," ","$","x"," ","i","n">>,   \* case $x in
    <<"a",")">>,   \* a)
    <<";",";">>,   \* ;;
    <<"e","s","a","c">>,   \* esac
    <<"e","c","h","o"," ","$","a"," ","$","{","b","}">>,   \* echo $a ${b}
    <<"x","=","$","(","d","a","t","e",")">>,   \* x=$(date)
    <<"f","i","n","d"," ",".">>,   \* find .
    <<"e","c","h","o"," ","{","$","a","}">>,   \* echo {$a}
    <<"#"," ","$","a">>,   \* # $a
    <<>> }

W_echo == <<"e","c","h","o"," ","$","a"," ","$","{","b","}">>
W_if == <<"i","f"," ","x",";"," ","t","h","e","n">>
W_elif_line == <<"e","l","i","f"," ","y",";"," ","t","h","e","n">>

\* if constructs between two ordinary commands: a body of one command after
\* if, after each elif and after else
IfScripts ==
  { <<W_echo, W_if, W_echo>>
      \o Concat([k \in 1..n |-> <<W_elif_line, W_echo>>])
      \o (IF has_else THEN <<W_else, W_echo>> ELSE <<>>)
      \o <<W_fi, W_echo>> : n \in 0..MaxElifs, has_else \in BOOLEAN }

\* a case statement, a loop and a function, each followed by a command
SampleScripts ==
  { <<<<"c","a","s","e"," ","$","x"," ","i","n">>, <<"a",")">>, <<"e","c","h","o"," ","$","a"," ","$","{","b","}">>, <<";",";">>, <<"e","s","a","c">>, <<"e","c","h","o"," ","$","a"," ","$","{","b","}">>>>,
    <<<<"f","o","r"," ","i",";"," ","d","o">>, <<"e","c","h","o"," ","$","a"," ","$","{","b","}">>, <<"d","o","n","e">>, <<"e","c","h","o"," ","$","a"," ","$","{","b","}">>>>,
    <<<<"f","(",")"," ","{">>, <<"i","f"," ","x",";"," ","t","h","e","n">>, <<"e","c","h","o"," ","$","a"," ","$","{","b","}">>, <<"f","i">>, <<"}">>>> }

BashScripts == SeqsUpTo(BashLines, MaxBashLines) \cup IfScripts \cup SampleScripts

InitBash ==
  /\ formatter = "bash"
  /\ lines \in BashScripts
  /\ alt_lines = lines
  /\ line_idx = 0 /\ indent_level = 0 /\ render_level = 0 /\ formatted_lines = <<>>
  /\ formatted = <<>> /\ alt_formatted = <<>>
  /\ lpc = "loop"
  /\ IdleRepair /\ IdleClassify /\ IdleFormat /\ IdleDoc /\ IdlePreserve /\ IdleFix /\ IdleDownload

NextBash == FormatBashIteration \/ FormatterReturn

SpecBash == InitBash /\ [][NextBash]_vars

----------------------------------------------------------------------------
(* Bash formatter: rendering level, level updates, variable references     *)

\* the first word of a line that has one
FirstWord(stripped) == SplitWords(stripped)[1]

\* the line is a same-level keyword: else, elif with its condition, or a
\* case-arm terminator
IsSameLevelLine(stripped) ==
  \/ FirstWord(stripped) \in {<<"e","l","s","e">>, <<"e","l","i","f">>}
  \/ StartsWith(stripped, <<";", ";">>)

\* the line is a decrease keyword: fi, done or esac, a closing brace, ;;
IsDecreaseLine(stripped) ==
  \/ stripped \in {<<"f","i">>, <<"d","o","n","e">>, <<"e","s","a","c">>}
  \/ stripped[1] = "}"
  \/ StartsWith(stripped, <<";", ";">>)

\* the level the line is to be rendered at when the level is level
RenderLevelOf(stripped, level) ==
  IF IsSameLevelLine(stripped) \/ IsDecreaseLine(stripped)
  THEN (IF level - 1 > 0 THEN level - 1 ELSE 0)
  ELSE level

\* the number of spaces a rendered line begins with
RECURSIVE LeadingSpaces(_)
LeadingSpaces(rendered) ==
  IF rendered # <<>> /\ rendered[1] = " " THEN 1 + LeadingSpaces(Tail(rendered)) ELSE 0

\* C22: the Bash formatter renders each line that is neither blank nor a
\* comment at 2 spaces per level, the level being max(0, level-1) for a
\* same-level or decrease keyword and the current level for any other line,
\* taken before the level is updated
BashRendersAtLevel ==
  [][FormatBashIteration /\ IsCodeLine("bash", Strip(lines[line_idx + 1])) =>
       /\ Len(formatted_lines') = Len(formatted_lines) + 1
       /\ LeadingSpaces(formatted_lines'[Len(formatted_lines')])
            = 2 * RenderLevelOf(Strip(lines[line_idx + 1]), indent_level)]_vars

\* if, its body and fi have been rendered at levels 0, 1 and 0 after a command
IfBodyFiRendered ==
  /\ lpc = "returned" /\ Len(lines) = 5
  /\ lines[2] = W_if /\ lines[4] = W_fi
  /\ [k \in 1..5 |-> LeadingSpaces(formatted_lines[k])] = <<0, 0, 2, 0, 0>>

\* the last word of a line that has one
LastWord(stripped) == SplitWords(stripped)[Len(SplitWords(stripped))]

\* the line is a case-arm pattern ending in ')': a pattern, no call
IsCaseArmLine(stripped) ==
  stripped[Len(stripped)] = ")" /\ "(" \notin Range(stripped)

\* the line raises the level: it ends in then or do, opens a brace, or is a
\* case-arm pattern
IsIncreaseLine(stripped) ==
  \/ LastWord(stripped) \in {<<"t","h","e","n">>, <<"d","o">>}
  \/ stripped[Len(stripped)] = "{"
  \/ IsCaseArmLine(stripped)

\* the level after a line read at level level
LevelAfter(stripped, level) ==
  IF IsIncreaseLine(stripped) THEN level + 1
  ELSE IF IsDecreaseLine(stripped) THEN (IF level - 1 > 0 THEN level - 1 ELSE 0)
  ELSE level

\* C23: after rendering a line the Bash formatter raises the level by one if
\* the line ends in then or do, opens a brace or is a case-arm pattern, lowers
\* it by one (not below zero) if the line is a decrease keyword, and leaves it
\* as it is for any other line
BashLevelChangesOnlyByKeywords ==
  [][FormatBashIteration =>
       indent_level' = IF IsCodeLine("bash", Strip(lines[line_idx + 1]))
                       THEN LevelAfter(Strip(lines[line_idx + 1]), indent_level)
                       ELSE indent_level]_vars

\* the end of the name that begins at position i: the position after its last
\* letter, digit or underscore
RECURSIVE NameEnd(_, _)
NameEnd(s, i) == IF i <= Len(s) /\ s[i] \in WordCh THEN NameEnd(s, i + 1) ELSE i

\* the text from position i on with every bare $name written ${name}: a
\* dollar sign followed by a name is braced, everything else is copied, a
\* reference already in braces with it
RECURSIVE Braced(_, _)
Braced(s, i) ==
  IF i > Len(s) THEN <<>>
  ELSE IF s[i] = "$" /\ i < Len(s) /\ s[i + 1] \in IdentStart
  THEN <<"$", "{">> \o SubSeq(s, i + 1, NameEnd(s, i + 1) - 1) \o <<"}">>
         \o Braced(s, NameEnd(s, i + 1))
  ELSE <<s[i]>> \o Braced(s, i + 1)

\* C24: on a line that is no comment the Bash formatter writes every bare
\* $name as ${name} and leaves every ${name} as it is, and rewriting the
\* rendered line again changes nothing
BashBracesEveryVariable ==
  \A k \in 1..line_idx :
    IsCodeLine("bash", Strip(lines[k])) =>
      /\ LStrip(formatted_lines[k]) = Braced(Strip(lines[k]), 1)
      /\ NormalizeVariables(LStrip(formatted_lines[k])) = LStrip(formatted_lines[k])

\* an ordinary command: no keyword of the formatter's lists, no opener, no
\* comment
IsOrdinaryCommand(line) == line = W_echo

\* lines i..j are a well-nested if construct with ordinary commands as
\* bodies: if ...; then, commands, any elif ...; then and else lines between
\* commands, and fi
IsIfConstruct(script, i, j) ==
  /\ i < j
  /\ script[i] = W_if
  /\ script[j] = W_fi
  /\ \A k \in (i + 1)..(j - 1) :
       \/ IsOrdinaryCommand(script[k])
       \/ script[k] = W_elif_line
            /\ \A e \in (i + 1)..(k - 1) : script[e] # W_else
       \/ script[k] = W_else
            /\ \A e \in (i + 1)..(j - 1) : script[e] = W_else => e = k

\* C28: after a well-nested if / elif / else / fi construct with ordinary
\* commands as bodies the level is what it was before the if: the command
\* after fi is rendered at the indentation of the command before if
BashIfConstructRestoresLevel ==
  lpc = "returned" =>
    \A i, j \in 2..(Len(lines) - 1) :
      /\ IsIfConstruct(lines, i, j)
      /\ IsOrdinaryCommand(lines[i - 1])
      /\ IsOrdinaryCommand(lines[j + 1])
      => LeadingSpaces(formatted_lines[j + 1]) = LeadingSpaces(formatted_lines[i - 1])

----------------------------------------------------------------------------
(* YAML and Go formatters, line by line                                    *)

\* a text without its spaces
RECURSIVE Unspaced(_)
Unspaced(s) ==
  IF s = <<>> THEN <<>>
  ELSE (IF s[1] = " " THEN <<>> ELSE <<s[1]>>) \o Unspaced(Tail(s))

\* the count n rounded down to the nearest even number
RoundedDownToEven(n) == n - (n % 2)

\* what the YAML formatter is to make of a line: a blank or comment line
\* stripped; any other line at its leading whitespace count rounded down to
\* even, a list item as "- item", the text otherwise kept up to its spaces
IsYamlRendering(line, rendered) ==
  IF Strip(line) = <<>> \/ Strip(line)[1] = "#"
  THEN rendered = Strip(line)
  ELSE /\ LeadingSpaces(rendered) = RoundedDownToEven(LeadingWS(line))
       /\ LeadingSpaces(rendered) % 2 = 0
       /\ Unspaced(rendered) = Unspaced(Strip(line))
       /\ Strip(line)[1] = "-" =>
            LStrip(rendered) = <<"-", " ">> \o Strip(Tail(Strip(line)))

\* C25: the YAML formatter maps each line by itself: blank and comment lines
\* are emitted stripped, a key: value line at its leading-space count rounded
\* down to even, a list item at the same indent as "- item"; as many lines
\* come out as went in and every emitted indentation is even
YamlMapsEachLine ==
  formatter = "yaml" =>
    /\ Len(formatted_lines) = line_idx
    /\ \A k \in 1..line_idx :
         /\ IsYamlRendering(lines[k], formatted_lines[k])
         /\ formatted_lines[k] = FormatYaml(lines[k])
    /\ lpc # "loop" => Len(SplitLines(formatted)) = Len(lines)

\* a key: value line with three leading spaces came out with two, after a
\* list item with one leading space that came out with none
OddIndentsRoundedDown ==
  /\ formatter = "yaml" /\ lpc = "returned" /\ Len(lines) = 2
  /\ LeadingWS(lines[1]) = 1 /\ Strip(lines[1])[1] = "-"
  /\ LeadingWS(lines[2]) = 3 /\ ":" \in Range(lines[2])
  /\ LeadingSpaces(formatted_lines[1]) = 0
  /\ LeadingSpaces(formatted_lines[2]) = 2

\* the line consists solely of a closing brace, parenthesis or bracket
IsClosingToken(stripped) == stripped \in {<<"}">>, <<")">>, <<"]">>}

\* the line ends in an opening brace, parenthesis or bracket
EndsInOpeningToken(stripped) == stripped[Len(stripped)] \in {"{", "(", "["}

\* the number of tabs a rendered line begins with
RECURSIVE LeadingTabs(_)
LeadingTabs(rendered) ==
  IF rendered # <<>> /\ rendered[1] = "\t" THEN 1 + LeadingTabs(Tail(rendered)) ELSE 0

\* the depth a Go line is to be rendered at when the depth is level
GoDepthOf(stripped, level) ==
  IF IsClosingToken(stripped) THEN (IF level - 1 > 0 THEN level - 1 ELSE 0) ELSE level

\* C26: the Go formatter keeps one depth for braces, parentheses and
\* brackets, one tab per level: the depth is lowered before a line that is
\* solely a closing token is rendered and raised after a line that ends in an
\* opening token
GoDepthFollowsTokens ==
  [][FormatGoIteration /\ IsCodeLine("go", Strip(lines[line_idx + 1])) =>
       /\ LeadingTabs(formatted_lines'[Len(formatted_lines')])
            = GoDepthOf(Strip(lines[line_idx + 1]), indent_level)
       /\ indent_level'
            = GoDepthOf(Strip(lines[line_idx + 1]), indent_level)
                + (IF EndsInOpeningToken(Strip(lines[line_idx + 1])) THEN 1 ELSE 0)]_vars

----------------------------------------------------------------------------
(* downloader.py: ConfluenceDownloader.run over the pages of a parent page *)

\* most pages under the parent page
MaxPages == 2
\* most attachments of a page
MaxAttachments == 2

\* what the download of one attachment can do: answer 200 with an image or
\* with another file, answer another status, raise
AttachmentOutcomes == {"image", "file", "status", "raise"}

\* _download_single_attachment: whether it returns (True, filename)
DownloadSingleAttachment(attachment) == attachment \in {"image", "file"}

\* what a page answers: the PDF export and the attachment listing answer 200
\* ("ok"), another status, or raise; downloads are the outcomes of the
\* attachments listed
PageAnswers ==
  {[pdf |-> "raise", listing |-> "ok", downloads |-> <<>>]}
  \cup {[pdf |-> p, listing |-> l, downloads |-> <<>>] :
          p \in {"ok", "status"}, l \in {"ok", "status", "raise"}}
  \cup {[pdf |-> p, listing |-> "ok", downloads |-> d] :
          p \in {"ok", "status"}, d \in SeqsUpTo(AttachmentOutcomes, MaxAttachments)}

\* export_pdf_and_attachments: the pair (success, result) as a record
ExportPdfAndAttachments(page) ==
  LET pdf_exported == page.pdf = "ok"
      pdf_errors == IF page.pdf = "status" THEN <<"Failed to export PDF">> ELSE <<>>
      downloaded == {k \in DOMAIN page.downloads : DownloadSingleAttachment(page.downloads[k])}
      failed == DOMAIN page.downloads \ downloaded
  IN IF page.pdf = "raise"
     THEN [success |-> FALSE,
           result |-> [pdf_exported |-> FALSE, attachments_downloaded |-> 0,
                       attachments_failed |-> 0, images_count |-> 0,
                       errors |-> <<"Export failed">>]]
     ELSE IF page.listing = "raise"
     THEN [success |-> FALSE,
           result |-> [pdf_exported |-> pdf_exported, attachments_downloaded |-> 0,
                       attachments_failed |-> 0, images_count |-> 0,
                       errors |-> pdf_errors \o <<"Export failed">>]]
     ELSE IF page.listing = "status"
     THEN [success |-> pdf_exported,
           result |-> [pdf_exported |-> pdf_exported, attachments_downloaded |-> 0,
                       attachments_failed |-> 0, images_count |-> 0,
                       errors |-> pdf_errors \o <<"Failed to fetch attachments">>]]
     ELSE [success |-> pdf_exported /\ Cardinality(failed) = 0,
           result |-> [pdf_exported |-> pdf_exported,
                       attachments_downloaded |-> Cardinality(downloaded),
                       attachments_failed |-> Cardinality(failed),
                       images_count |->
                         Cardinality({k \in downloaded : page.downloads[k] = "image"}),
                       errors |-> pdf_errors]]

\* the dict result as run creates it
NewRunResult ==
  [success |-> FALSE, pages_processed |-> <<>>, total_pages |-> 0, total_pdfs |-> 0,
   total_attachments |-> 0, total_images |-> 0, errors |-> <<>>]

InitDownload ==
  /\ parent_lookup \in {"found", "missing", "raise"}
  /\ all_pages \in SeqsUpTo(PageAnswers, MaxPages) \cup {<<>>}
  /\ page_no = 0
  /\ run_result = NewRunResult
  /\ wpc = "start"
  /\ IdleRepair /\ IdleClassify /\ IdleFormat /\ IdleDoc /\ IdleLines /\ IdlePreserve /\ IdleFix

\* run up to the loop: the parent page is looked up and its pages fetched; a
\* parent that is not found, or a request that raises, ends the run
RunFetchPages ==
  /\ wpc = "start"
  /\ \/ /\ parent_lookup = "found"
        /\ run_result' = [run_result EXCEPT !.total_pages = Len(all_pages)]
        /\ wpc' = "loop"
     \/ /\ parent_lookup = "missing"
        /\ run_result' = [run_result EXCEPT !.errors = Append(@, "Could not find parent page")]
        /\ wpc' = "returned"
     \/ /\ parent_lookup = "raise"
        /\ run_result' = [run_result EXCEPT !.errors = Append(@, "Export run failed")]
        /\ wpc' = "returned"
  /\ UNCHANGED <<parent_lookup, all_pages, page_no,
                 repairVars, classifyVars, formatVars, docVars, lineVars, preserveVars, fixVars>>

\* one iteration of "for page in all_pages"
RunExportPage ==
  /\ wpc = "loop" /\ page_no < Len(all_pages)
  /\ \E exported \in {ExportPdfAndAttachments(all_pages[page_no + 1])} :
       run_result' =
         IF exported.success
         THEN [run_result EXCEPT
                 !.pages_processed = Append(@, exported.result),
                 !.total_pdfs = IF exported.result.pdf_exported THEN @ + 1 ELSE @,
                 !.total_attachments = @ + exported.result.attachments_downloaded,
                 !.total_images = @ + exported.result.images_count]
         ELSE [run_result EXCEPT
                 !.pages_processed = Append(@, exported.result),
                 !.errors = @ \o exported.result.errors]
  /\ page_no' = page_no + 1
  /\ UNCHANGED <<parent_lookup, all_pages, wpc,
                 repairVars, classifyVars, formatVars, docVars, lineVars, preserveVars, fixVars>>

\* the loop is over: success is set and result returned
RunReturn ==
  /\ wpc = "loop" /\ page_no = Len(all_pages)
  /\ run_result' = [run_result EXCEPT !.success = (run_result.errors = <<>>)]
  /\ wpc' = "returned"
  /\ UNCHANGED <<parent_lookup, all_pages, page_no,
                 repairVars, classifyVars, formatVars, docVars, lineVars, preserveVars, fixVars>>

NextDownload == RunFetchPages \/ RunExportPage \/ RunReturn

SpecDownload == InitDownload /\ [][NextDownload]_vars

\* the export of the page succeeded: its PDF was exported and none of its
\* attachment downloads failed
PageExportSucceeded(page) ==
  /\ page.pdf = "ok"
  /\ \A k \in DOMAIN page.downloads : page.downloads[k] \in {"image", "file"}

\* C30: run reports success only if the export of every page succeeded, and
\* total_pdfs is the number of pages whose PDF was exported
RunSuccessMeansAllPagesExported ==
  wpc = "returned" /\ parent_lookup = "found" =>
    /\ run_result.success => \A k \in DOMAIN all_pages : PageExportSucceeded(all_pages[k])
    /\ run_result.total_pdfs = Cardinality({k \in DOMAIN all_pages : all_pages[k].pdf = "ok"})

\* every page exported its PDF and its attachments, and run says so
AllPagesExportedReported ==
  /\ wpc = "returned" /\ Len(all_pages) = 2
  /\ \A k \in DOMAIN all_pages :
       PageExportSucceeded(all_pages[k]) /\ all_pages[k].listing = "ok"
                                         /\ all_pages[k].downloads # <<>>
  /\ run_result.success /\ run_result.total_pdfs = 2

====
